---- MODULE Spec2Model ----
(***************************************************************************)
(* Trimphone client session engine (src/src/trimphone.ts) and its Call     *)
(* objects (src/src/call.ts), driven by a transport that conforms to the   *)
(* Transport interface, by the Exchange's inbound frames, by the user's    *)
(* operations and by timers.                                               *)
(*                                                                         *)
(* The engine runs on one JavaScript event loop.  A macrotask (transport   *)
(* event, timer) runs only when the microtask queue is empty; the          *)
(* continuation of an `await` is a microtask; user code may call the       *)
(* engine synchronously at any point.                                      *)
(***************************************************************************)
EXTENDS Integers, Sequences, FiniteSets, TLC

\* ---------------------------------------------------------------- bounds
MaxTransports == 2      \* transports the factory hands out in one run
MaxStaleTransports == 3 \* the same, in the runs of SpecStale
MaxRegs == 2            \* register() invocations in one run
MaxDials == 2           \* dial() invocations in one run
MaxCallObjs == 2        \* Call objects constructed in one run
MaxHangups == 2         \* HANGUP frames one Call object sends
MaxStreams == 2         \* TunnelStream objects constructed in one run
MaxMsgs == 2            \* MSG frames one Call object sends, and receives
MaxTunnels == 1         \* tunnel() invocations on one Call object
MaxAcks == 1            \* HEARTBEAT_ACK frames received in one run
MaxWire == 2            \* frames of the peer in flight in the Exchange
MaxWritten == 4         \* bytes the peer writes into one call's stream
MaxWrites == 1          \* chunks the user writes into one TunnelStream
MaxParseErrors == 2     \* frames that fail to parse in one run
MaxCloses == 2          \* close() invocations of the user on one tunnel handle

RegIds == 1..MaxRegs
DialIds == 1..MaxDials
TransportIds == 1..MaxStaleTransports

Addresses == {"a@x.io", "b@x.io"}
\* strings that register() and dial() may be handed besides those
OtherAddresses == {"", "a", "@x.io", "a@", "a@x", "a@b@x.io", "a@."}
CallIds == {"c1", "c2"}

Reasons == {"bye"}
Chunks == {<<104>>, <<255, 1>>, <<104, 101, 108, 108>>}

NoAddr == ""
NoOptions == "null"

VARIABLES
  \* Trimphone fields (trimphone.ts:98-118)
  transport, connectionState, connectPromise,
  registeredAddress, registerOptions, registerDeferred,
  pendingDials, calls,
  reconnectTimer, currentReconnectDelay,
  shouldAttemptReconnect, manualCloseRequested,
  \* constructor options (trimphone.ts:131-137)
  autoReconnect, registerOnConnect, heartbeatIntervalMs,
  heartbeatTimeoutMs, baseReconnectBackoffMs, maxReconnectBackoffMs,
  \* heartbeat timers (trimphone.ts:111-112), TRUE while set
  heartbeatTimer, heartbeatTimeoutTimer,
  \* transports handed out by the factory, promises, event loop;
  \* factoryLimit is the number of transports the factory hands out,
  \* browserFactory holds when they are BrowserWebSocketTransport objects;
  \* handles are the process tunnel handles (call.ts:160, 242)
  factoryLimit, browserFactory, useWebStreams, handles, nTransports, tstate, connectListeners, firstFrame,
  promiseState, waiters, microQ,
  \* objects in the user's hands
  callObjs, regs, dials,
  \* streams map (trimphone.ts:109) and the TunnelStream objects
  streams, streamObjs,
  \* observers; closeCode[t] is the code of the close() call the engine
  \* made on transport t on its own, 0 if it made none; userClosed[t] holds
  \* when the user's close() closed transport t
  closeCode, heartbeatAcks, userClosed,
  \* the peer engine and the Exchange: peerCall[c] is the peer's view of
  \* call c, written[c] the bytes the peer wrote into its TunnelStream of
  \* call c, and wire the peer's frames in flight, oldest first
  peerCall, written, wire,
  registerFrames, lastDelay,
  resolvedReg, resolvedAt, latestAt,
  \* the `error` events the engine emitted for frames that failed to parse
  parseErrors

vars == << transport, connectionState, connectPromise,
           registeredAddress, registerOptions, registerDeferred,
           pendingDials, calls, reconnectTimer, currentReconnectDelay,
           shouldAttemptReconnect, manualCloseRequested,
           autoReconnect, registerOnConnect, heartbeatIntervalMs,
           heartbeatTimeoutMs, baseReconnectBackoffMs, maxReconnectBackoffMs,
           heartbeatTimer, heartbeatTimeoutTimer, closeCode, heartbeatAcks,
           userClosed, peerCall, written, wire,
           factoryLimit, browserFactory, useWebStreams, handles,
           nTransports, tstate, connectListeners, firstFrame,
           promiseState, waiters, microQ, callObjs, regs, dials,
           streams, streamObjs,
           registerFrames, lastDelay,
           resolvedReg, resolvedAt, latestAt, parseErrors >>

\* The state as one record, so that a handler is a function from state to
\* state and handlers compose in the order the code calls them.
Cur ==
  [ transport |-> transport, connectionState |-> connectionState,
    connectPromise |-> connectPromise,
    registeredAddress |-> registeredAddress,
    registerOptions |-> registerOptions,
    registerDeferred |-> registerDeferred,
    pendingDials |-> pendingDials, calls |-> calls,
    reconnectTimer |-> reconnectTimer,
    currentReconnectDelay |-> currentReconnectDelay,
    shouldAttemptReconnect |-> shouldAttemptReconnect,
    manualCloseRequested |-> manualCloseRequested,
    autoReconnect |-> autoReconnect,
    registerOnConnect |-> registerOnConnect,
    heartbeatIntervalMs |-> heartbeatIntervalMs,
    heartbeatTimeoutMs |-> heartbeatTimeoutMs,
    heartbeatTimer |-> heartbeatTimer,
    heartbeatTimeoutTimer |-> heartbeatTimeoutTimer,
    closeCode |-> closeCode,
    heartbeatAcks |-> heartbeatAcks,
    userClosed |-> userClosed,
    peerCall |-> peerCall, written |-> written, wire |-> wire,
    baseReconnectBackoffMs |-> baseReconnectBackoffMs,
    maxReconnectBackoffMs |-> maxReconnectBackoffMs,
    factoryLimit |-> factoryLimit, browserFactory |-> browserFactory,
    useWebStreams |-> useWebStreams, handles |-> handles,
    nTransports |-> nTransports, tstate |-> tstate,
    connectListeners |-> connectListeners, firstFrame |-> firstFrame,
    promiseState |-> promiseState, waiters |-> waiters, microQ |-> microQ,
    callObjs |-> callObjs, regs |-> regs, dials |-> dials,
    streams |-> streams, streamObjs |-> streamObjs,
    registerFrames |-> registerFrames, lastDelay |-> lastDelay,
    resolvedReg |-> resolvedReg, resolvedAt |-> resolvedAt,
    latestAt |-> latestAt, parseErrors |-> parseErrors ]

\* v is the value of s, computed once
Commit(s) ==
  \E v \in {s} :
    /\ transport' = v.transport
    /\ connectionState' = v.connectionState
    /\ connectPromise' = v.connectPromise
    /\ registeredAddress' = v.registeredAddress
    /\ registerOptions' = v.registerOptions
    /\ registerDeferred' = v.registerDeferred
    /\ pendingDials' = v.pendingDials
    /\ calls' = v.calls
    /\ reconnectTimer' = v.reconnectTimer
    /\ currentReconnectDelay' = v.currentReconnectDelay
    /\ shouldAttemptReconnect' = v.shouldAttemptReconnect
    /\ manualCloseRequested' = v.manualCloseRequested
    /\ autoReconnect' = v.autoReconnect
    /\ registerOnConnect' = v.registerOnConnect
    /\ heartbeatIntervalMs' = v.heartbeatIntervalMs
    /\ heartbeatTimeoutMs' = v.heartbeatTimeoutMs
    /\ heartbeatTimer' = v.heartbeatTimer
    /\ heartbeatTimeoutTimer' = v.heartbeatTimeoutTimer
    /\ closeCode' = v.closeCode
    /\ heartbeatAcks' = v.heartbeatAcks
    /\ userClosed' = v.userClosed
    /\ peerCall' = v.peerCall
    /\ written' = v.written
    /\ wire' = v.wire
    /\ baseReconnectBackoffMs' = v.baseReconnectBackoffMs
    /\ maxReconnectBackoffMs' = v.maxReconnectBackoffMs
    /\ factoryLimit' = v.factoryLimit
    /\ browserFactory' = v.browserFactory
    /\ useWebStreams' = v.useWebStreams
    /\ handles' = v.handles
    /\ nTransports' = v.nTransports
    /\ tstate' = v.tstate
    /\ connectListeners' = v.connectListeners
    /\ firstFrame' = v.firstFrame
    /\ promiseState' = v.promiseState
    /\ waiters' = v.waiters
    /\ microQ' = v.microQ
    /\ callObjs' = v.callObjs
    /\ regs' = v.regs
    /\ dials' = v.dials
    /\ streams' = v.streams
    /\ streamObjs' = v.streamObjs
    /\ registerFrames' = v.registerFrames
    /\ lastDelay' = v.lastDelay
    /\ resolvedReg' = v.resolvedReg
    /\ resolvedAt' = v.resolvedAt
    /\ latestAt' = v.latestAt
    /\ parseErrors' = v.parseErrors

Min(a, b) == IF a <= b THEN a ELSE b

NoReg == [address |-> NoAddr, options |-> NoOptions]

Frame(type, arg, opt) == [type |-> type, arg |-> arg, opt |-> opt]

NoFrame == Frame("", "", "")

Cont(kind, id) == [kind |-> kind, id |-> id, ok |-> TRUE]

\* ------------------------------------------------------------ Init
InitEngine(limit, browser) ==
  /\ factoryLimit = limit
  /\ browserFactory = browser
  /\ useWebStreams = FALSE
  /\ handles = << >>
  /\ transport = 0
  /\ connectionState = "disconnected"
  /\ connectPromise = 0
  /\ registeredAddress = NoAddr
  /\ registerOptions = NoOptions
  /\ registerDeferred = [active |-> FALSE, chain |-> << >>]
  /\ pendingDials = << >>
  /\ calls = [c \in CallIds |-> 0]
  /\ reconnectTimer = 0
  /\ baseReconnectBackoffMs = 1
  /\ maxReconnectBackoffMs = 3
  /\ currentReconnectDelay = baseReconnectBackoffMs
  /\ shouldAttemptReconnect = TRUE
  /\ manualCloseRequested = FALSE
  /\ autoReconnect \in BOOLEAN
  /\ registerOnConnect \in BOOLEAN
  /\ heartbeatIntervalMs \in {0, 1}
  /\ heartbeatTimeoutMs \in {0, 1}
  /\ heartbeatTimer = FALSE
  /\ heartbeatTimeoutTimer = FALSE
  /\ closeCode = [t \in TransportIds |-> 0]
  /\ heartbeatAcks = 0
  /\ userClosed = [t \in TransportIds |-> FALSE]
  /\ peerCall = [c \in CallIds |-> "none"]
  /\ written = [c \in CallIds |-> << >>]
  /\ wire = << >>
  /\ nTransports = 0
  /\ tstate = [t \in TransportIds |-> "idle"]
  /\ connectListeners = [t \in TransportIds |-> FALSE]
  /\ firstFrame = [t \in TransportIds |-> NoFrame]
  /\ promiseState = [t \in TransportIds |-> "none"]
  /\ waiters = [t \in TransportIds |-> << >>]
  /\ microQ = << >>
  /\ callObjs = << >>
  /\ streams = [c \in CallIds |-> 0]
  /\ streamObjs = << >>
  /\ regs = [r \in RegIds |->
               [status |-> "unused", error |-> "", address |-> NoAddr,
                options |-> NoOptions, joined |-> 0]]
  /\ dials = [d \in DialIds |->
                [status |-> "unused", error |-> "", to |-> NoAddr,
                 timeoutMs |-> 0, elapsed |-> FALSE, settles |-> 0]]
  /\ registerFrames = 0
  /\ lastDelay = 0
  /\ resolvedReg = NoReg
  /\ resolvedAt = [t \in TransportIds |-> NoReg]
  /\ latestAt = [t \in TransportIds |-> NoReg]
  /\ parseErrors = 0

Init == InitEngine(MaxTransports, FALSE)

\* ------------------------------------------------------------ send
\* Trimphone.send throws unless a transport is held and the state is
\* connected; transport.send throws unless the transport is open
\* (web/websocketTransport.ts:82-85).
CanSend(s) ==
  /\ s.transport # 0
  /\ s.connectionState = "connected"
  /\ s.tstate[s.transport] = "open"

\* firstFrame[t] observes the first frame other than HEARTBEAT that the
\* engine hands to transport t (its type; its fields too when it is a
\* REGISTER), registerFrames the REGISTER frames handed over since the last
\* registration completion.
Send(s, frame) ==
  [s EXCEPT !.firstFrame[s.transport] =
              IF @ # NoFrame \/ frame.type = "HEARTBEAT" THEN @
              ELSE IF frame.type = "REGISTER" THEN frame
              ELSE Frame(frame.type, "", ""),
            !.registerFrames = IF frame.type = "REGISTER" THEN @ + 1 ELSE @]

SendRegisterMessage(s) ==
  IF s.registeredAddress = NoAddr THEN s
  ELSE Send(s, Frame("REGISTER", s.registeredAddress, s.registerOptions))

\* ------------------------------------------------------------ reconnect
ScheduleReconnect(s) ==
  IF s.reconnectTimer # 0 THEN s
  ELSE [s EXCEPT !.reconnectTimer = s.currentReconnectDelay]

ClearReconnectTimer(s) == [s EXCEPT !.reconnectTimer = 0]

\* ------------------------------------------------------------ connect
\* ensureConnected can run when it needs no new transport or the factory
\* still has one to hand out.
CanEnsure(s) ==
  \/ s.connectionState = "connected"
  \/ s.connectPromise # 0
  \/ s.nTransports < s.factoryLimit

\* cont is the continuation of the caller's await (or .then/.catch), of
\* kind "none" when nothing in the engine waits on the returned promise.
AddWaiter(q, cont) == IF cont.kind = "none" THEN q ELSE Append(q, cont)

EnsureConnected(s, cont) ==
  IF s.connectionState = "connected"
  THEN [s EXCEPT !.microQ = AddWaiter(@, cont)]
  ELSE IF s.connectPromise # 0
  THEN [s EXCEPT !.waiters[s.connectPromise] = AddWaiter(@, cont)]
  ELSE LET t == s.nTransports + 1 IN
       [s EXCEPT !.connectionState = "connecting",
                 !.nTransports = t,
                 !.transport = t,
                 !.useWebStreams = s.browserFactory,
                 !.tstate[t] = "connecting",
                 !.connectListeners[t] = TRUE,
                 !.connectPromise = t,
                 !.promiseState[t] = "pending",
                 !.waiters[t] = AddWaiter(<< >>, cont)]

\* resolve() / reject() of the connect promise created with transport t
SettleConnect(s, t, ok) ==
  IF s.promiseState[t] # "pending" THEN s
  ELSE [s EXCEPT !.promiseState[t] = IF ok THEN "resolved" ELSE "rejected",
                 !.microQ = @ \o [i \in 1..Len(s.waiters[t]) |->
                                    [s.waiters[t][i] EXCEPT !.ok = ok]],
                 !.waiters[t] = << >>]

\* clearHeartbeatTimers without the `if (this.heartbeatTimeoutTimer)` block
ClearHeartbeatTimersKeepTimeout(s) ==
  [s EXCEPT !.heartbeatTimer = FALSE]

ClearHeartbeatTimers(s) ==
  [s EXCEPT !.heartbeatTimer = FALSE, !.heartbeatTimeoutTimer = FALSE]

ScheduleHeartbeatTimeout(s) ==
  IF s.heartbeatTimeoutMs <= 0 \/ s.heartbeatTimeoutTimer THEN s
  ELSE [s EXCEPT !.heartbeatTimeoutTimer = TRUE]

\* startHeartbeat where this.send does not throw
StartHeartbeat(s) ==
  LET s1 == ClearHeartbeatTimers(s) IN
  IF s1.heartbeatIntervalMs <= 0 THEN s1
  ELSE [ScheduleHeartbeatTimeout(Send(s1, Frame("HEARTBEAT", "", "")))
          EXCEPT !.heartbeatTimer = TRUE]

\* handleOpen without `if (this.registeredAddress && this.registerOnConnect)
\* this.sendRegisterMessage()`
HandleOpenWithoutReregister(s, t) ==
  LET s1 == [s EXCEPT !.connectListeners[t] = FALSE,
                      !.connectionState = "connected",
                      !.connectPromise = 0,
                      !.currentReconnectDelay = s.baseReconnectBackoffMs,
                      !.lastDelay = 0]
      hbThrows == s1.heartbeatIntervalMs > 0 /\ ~CanSend(s1)
  IN IF hbThrows THEN ClearHeartbeatTimers(s1)
     ELSE SettleConnect(StartHeartbeat(s1), t, TRUE)

HandleOpen(s, t) ==
  LET s1 == [s EXCEPT !.connectListeners[t] = FALSE,
                      !.connectionState = "connected",
                      !.connectPromise = 0,
                      !.currentReconnectDelay = s.baseReconnectBackoffMs,
                      !.lastDelay = 0]
      hbThrows == s1.heartbeatIntervalMs > 0 /\ ~CanSend(s1)
      s2 == StartHeartbeat(s1)
      reRegister == s2.registeredAddress # NoAddr /\ s2.registerOnConnect
      regThrows == reRegister /\ ~CanSend(s2)
      s3 == IF reRegister THEN SendRegisterMessage(s2) ELSE s2
  IN IF hbThrows THEN ClearHeartbeatTimers(s1)
     ELSE IF regThrows THEN s2
     ELSE SettleConnect(s3, t, TRUE)

HandleConnectError(s, t) ==
  LET s1 == [s EXCEPT !.connectListeners[t] = FALSE] IN
  IF s1.connectionState = "connecting"
  THEN SettleConnect([s1 EXCEPT !.connectionState = "disconnected",
                                !.connectPromise = 0], t, FALSE)
  ELSE s1

\* ------------------------------------------------------------ completions
\* registerDeferred.resolve() / .reject(): every promise chained onto the
\* deferred settles; a caller whose promise is already settled sees nothing.
SettleRegisterDeferred(s, ok, err) ==
  LET ch == s.registerDeferred.chain
      hit(r) == /\ s.registerDeferred.active
                /\ \E i \in 1..Len(ch) : ch[i] = r
                /\ s.regs[r].status = "inflight"
      done == {r \in RegIds : hit(r)}
      last == CHOOSE r \in done : \A q \in done : q <= r
  IN [s EXCEPT
        !.regs = [r \in RegIds |->
                    IF hit(r)
                    THEN [s.regs[r] EXCEPT
                            !.status = IF ok THEN "resolved" ELSE "rejected",
                            !.error = err]
                    ELSE s.regs[r]],
        !.resolvedReg = IF ok /\ done # {}
                        THEN [address |-> s.regs[last].address,
                              options |-> s.regs[last].options]
                        ELSE @,
        !.registerDeferred = [active |-> FALSE, chain |-> << >>],
        !.registerFrames = 0]

\* deferred.resolve(call) / deferred.reject(error) of a pending dial
SettleDial(s, d, ok, err) ==
  [s EXCEPT !.dials[d] =
     [@ EXCEPT !.settles = @ + 1,
               !.status = IF @ = "pending"
                          THEN (IF ok THEN "resolved" ELSE "rejected")
                          ELSE @,
               !.error = IF s.dials[d].status = "pending" THEN err ELSE @]]

RECURSIVE DrainPendingDials(_)
DrainPendingDials(s) ==
  IF Len(s.pendingDials) = 0 THEN s
  ELSE DrainPendingDials(
         SettleDial([s EXCEPT !.pendingDials = Tail(@)],
                    Head(s.pendingDials), FALSE, "Disconnected"))

\* ------------------------------------------------------------ Call
\* answerSent, msgSent and hangupSent observe the ANSWER, MSG and HANGUP
\* frames the Call's controller handed to the transport; messages,
\* hangupEvents and hangupReason observe its `message` and `hangup` events;
\* tunnelCalls counts tunnel() invocations and processStarts the
\* process.start() calls they made; startPending holds while a tunnel()
\* awaits a process.start() that has not resolved.
NewCall(id, direction) ==
  [id |-> id, direction |-> direction,
   state |-> IF direction = "inbound" THEN "ringing" ELSE "pending",
   answerSent |-> 0, msgSent |-> 0, hangupSent |-> 0,
   messages |-> 0, hangupEvents |-> 0, hangupReason |-> "",
   tunnelCalls |-> 0, processStarts |-> 0, startPending |-> FALSE]

SetConnected(call) == [call EXCEPT !.state = "active"]

\* receiveHangup without `this.emit("hangup", reason)`
ReceiveHangupWithoutEmit(call, reason) ==
  IF call.state = "ended" THEN call
  ELSE [call EXCEPT !.state = "ended"]

ReceiveHangup(call, reason) ==
  IF call.state = "ended" THEN call
  ELSE [call EXCEPT !.state = "ended", !.hangupEvents = @ + 1,
                    !.hangupReason = reason]

ReceiveMessage(call) == [call EXCEPT !.messages = @ + 1]

\* ------------------------------------------------------------ tunnel handles
\* call: the Call object; web: made by tunnelWebProcess; stream: the call's
\* stream the pipes are attached to; listening: onHangup is registered;
\* closed: the flag of close(); active: the handle is in activeTunnels;
\* waiting: close() awaits the two pipes, with waitReason its argument;
\* stdoutClosed: the process closed its stdout; closeCalls, stdinEnds,
\* stopCalls and stopReason observe the close() invocations, the ends of
\* the process stdin, and the process.stop() invocations and the argument
\* of the last one; firstReason observes the argument of the close() that
\* set the flag.
NewHandle(k, web, stream, closeOnHangup) ==
  [call |-> k, web |-> web, stream |-> stream,
   closeOnHangup |-> closeOnHangup, listening |-> closeOnHangup,
   closed |-> FALSE, active |-> TRUE,
   waiting |-> FALSE, waitReason |-> "", stdoutClosed |-> FALSE,
   closeCalls |-> 0, stdinEnds |-> 0, stopCalls |-> 0, stopReason |-> "",
   firstReason |-> ""]

\* handle.close(reason) up to its first await: the wrapper installed for
\* closeOnHangup removes the hangup listener, then the original close
\* runs; tunnelNodeProcess ends the stdin and calls process.stop at once,
\* tunnelWebProcess first awaits the two pipes
CloseHandle(h, reason) ==
  LET h1 == [h EXCEPT !.closeCalls = @ + 1,
                      !.listening = IF h.closeOnHangup THEN FALSE ELSE @]
  IN IF h.closed THEN h1
     ELSE IF ~h.web
     THEN [h1 EXCEPT !.closed = TRUE, !.active = FALSE,
                     !.firstReason = reason,
                     !.stdinEnds = @ + 1, !.stopCalls = @ + 1,
                     !.stopReason = reason]
     ELSE [h1 EXCEPT !.closed = TRUE, !.active = FALSE,
                     !.firstReason = reason,
                     !.waiting = TRUE, !.waitReason = reason]

\* close() of tunnelWebProcess after `await Promise.allSettled(...)`
ResumeClose(h) ==
  [h EXCEPT !.waiting = FALSE, !.stdinEnds = @ + 1,
            !.stopCalls = @ + 1, !.stopReason = h.waitReason]

\* the `hangup` events that took the calls from `before` to `after` run the
\* onHangup listeners registered with once()
EmitHangup(before, after) ==
  [after EXCEPT
     !.handles =
       [i \in 1..Len(after.handles) |->
          LET h == after.handles[i] IN
          IF /\ h.listening
             /\ before.callObjs[h.call].state # "ended"
             /\ after.callObjs[h.call].state = "ended"
          THEN CloseHandle([h EXCEPT !.listening = FALSE], "call_hangup")
          ELSE h]]

\* ------------------------------------------------------------ tunnel streams
\* A byte is a number in 0..255; base64 text is the sequence of its
\* characters' values 0..63, with Pad for `=`.
Pad == 64

RECURSIVE EncodeBase64(_)
EncodeBase64(bytes) ==
  IF Len(bytes) = 0 THEN << >>
  ELSE IF Len(bytes) = 1
  THEN << bytes[1] \div 4, (bytes[1] % 4) * 16, Pad, Pad >>
  ELSE IF Len(bytes) = 2
  THEN << bytes[1] \div 4, (bytes[1] % 4) * 16 + bytes[2] \div 16,
          (bytes[2] % 16) * 4, Pad >>
  ELSE << bytes[1] \div 4, (bytes[1] % 4) * 16 + bytes[2] \div 16,
          (bytes[2] % 16) * 4 + bytes[3] \div 64, bytes[3] % 64 >>
       \o EncodeBase64(SubSeq(bytes, 4, Len(bytes)))

RECURSIVE DecodeBase64(_)
DecodeBase64(data) ==
  IF Len(data) < 4 THEN << >>
  ELSE LET b1 == data[1] * 4 + data[2] \div 16
           b2 == (data[2] % 16) * 16 + data[3] \div 4
           b3 == (data[3] % 4) * 64 + data[4]
       IN IF data[3] = Pad THEN << b1 >>
          ELSE IF data[4] = Pad THEN << b1, b2 >>
          ELSE << b1, b2, b3 >> \o DecodeBase64(SubSeq(data, 5, Len(data)))

PushChunk(stream, bytes) ==
  IF stream.remoteEnded THEN stream
  ELSE [stream EXCEPT !.readable = @ \o bytes]

\* readable: the bytes pushed to the readable side; remoteEnded: push(null);
\* writes: the chunks the user wrote; framesSent: the MSG frames sendChunk
\* handed to the transport; destroyed: a write failed and the stream was
\* destroyed
GetOrCreateNodeStream(s, cid) ==
  IF s.streams[cid] # 0 THEN s
  ELSE [s EXCEPT !.streamObjs =
                   Append(@, [id |-> cid, readable |-> << >>,
                              remoteEnded |-> FALSE, writes |-> 0,
                              framesSent |-> 0, destroyed |-> FALSE]),
                 !.streams[cid] = Len(s.streamObjs) + 1]

\* closeStream without `stream.endFromRemote()`
CloseStreamWithoutEnd(s, cid) ==
  IF s.streams[cid] = 0 THEN s
  ELSE [s EXCEPT !.streams[cid] = 0]

CloseStream(s, cid) ==
  IF s.streams[cid] = 0 THEN s
  ELSE [s EXCEPT !.streamObjs[s.streams[cid]].remoteEnded = TRUE,
                 !.streams[cid] = 0]

RECURSIVE CloseStreams(_, _)
CloseStreams(s, ids) ==
  IF ids = {} THEN s
  ELSE LET c == CHOOSE x \in ids : TRUE
       IN CloseStreams(CloseStream(s, c), ids \ {c})

InTable(s, k) == \E c \in CallIds : s.calls[c] = k

\* ------------------------------------------------------------ close
\* handleTransportClose from the state change to the last closeStream,
\* without the loop that closes the streams
DisconnectCascadeKeepsStreams(s) ==
  LET s1 == ClearHeartbeatTimers(
              [s EXCEPT !.connectionState = "disconnected",
                        !.transport = 0,
                        !.connectPromise = 0])
      s2 == SettleRegisterDeferred(s1, FALSE, "Disconnected")
      s3 == DrainPendingDials(s2)
  IN [s3 EXCEPT
        !.callObjs = [k \in 1..Len(s3.callObjs) |->
                        IF InTable(s3, k)
                        THEN ReceiveHangup(s3.callObjs[k], "disconnected")
                        ELSE s3.callObjs[k]],
        !.calls = [c \in CallIds |-> 0]]

\* handleTransportClose from the state change to the last closeStream: the
\* state in which `disconnected` is emitted
DisconnectCascade(s) ==
  LET s1 == ClearHeartbeatTimers(
              [s EXCEPT !.connectionState = "disconnected",
                        !.transport = 0,
                        !.connectPromise = 0])
      s2 == SettleRegisterDeferred(s1, FALSE, "Disconnected")
      s3 == DrainPendingDials(s2)
      s4 == [s3 EXCEPT
               !.callObjs = [k \in 1..Len(s3.callObjs) |->
                               IF InTable(s3, k)
                               THEN ReceiveHangup(s3.callObjs[k],
                                                  "disconnected")
                               ELSE s3.callObjs[k]],
               !.calls = [c \in CallIds |-> 0]]
  IN CloseStreams(EmitHangup(s, s4), {c \in CallIds : s4.streams[c] # 0})

\* handleTransportClose without `if (this.autoReconnect && ...)
\* this.scheduleReconnect()`
HandleTransportCloseWithoutReconnect(s) ==
  IF s.connectionState = "disconnected" THEN s
  ELSE DisconnectCascade(s)

HandleTransportClose(s) ==
  IF s.connectionState = "disconnected" THEN s
  ELSE
    LET s5 == DisconnectCascade(s)
    IN IF s5.autoReconnect /\ s5.shouldAttemptReconnect
          /\ ~s5.manualCloseRequested
       THEN ScheduleReconnect(s5)
       ELSE s5

TransportCloseCall(s, sync) ==
  LET t == s.transport IN
  IF t # 0 /\ s.tstate[t] \in {"connecting", "open"}
  THEN IF sync
       THEN HandleTransportClose([s EXCEPT !.tstate[t] = "closed"])
       ELSE [s EXCEPT !.tstate[t] = "closing"]
  ELSE s

\* ------------------------------------------------------------ frames in
HandleRegistered(s) == SettleRegisterDeferred(s, TRUE, "")

HandleRegisterFailed(s) == SettleRegisterDeferred(s, FALSE, "RegistrationFailed")

HandleIncomingRing(s, cid) ==
  [s EXCEPT !.callObjs = Append(@, NewCall(cid, "inbound")),
            !.calls[cid] = Len(s.callObjs) + 1]

FindIndex(q, ds, to) ==
  IF \E i \in 1..Len(q) : ds[q[i]].to = to
  THEN CHOOSE i \in 1..Len(q) :
         /\ ds[q[i]].to = to
         /\ \A j \in 1..(i - 1) : ds[q[j]].to # to
  ELSE 0

\* index of the entry dequeuePendingDial removes, 0 when the FIFO is empty
DequeuePendingDial(q, ds, to) ==
  IF Len(q) = 0 THEN 0
  ELSE IF to = NoAddr THEN 1
  ELSE IF FindIndex(q, ds, to) = 0 THEN 1
  ELSE FindIndex(q, ds, to)

RemoveAt(q, i) == SubSeq(q, 1, i - 1) \o SubSeq(q, i + 1, Len(q))

HandleConnected(s, cid, to) ==
  IF s.calls[cid] # 0
  THEN [s EXCEPT !.callObjs[s.calls[cid]] = SetConnected(@)]
  ELSE
    LET i == DequeuePendingDial(s.pendingDials, s.dials, to) IN
    IF i = 0 THEN s
    ELSE
      LET d == s.pendingDials[i]
          k == Len(s.callObjs) + 1
          s1 == [s EXCEPT !.pendingDials = RemoveAt(@, i),
                          !.callObjs = Append(@, NewCall(cid, "outbound")),
                          !.calls[cid] = k]
          s2 == SettleDial(s1, d, TRUE, "")
      IN [s2 EXCEPT !.callObjs[k] = SetConnected(@)]

HandleBusy(s, to) ==
  LET i == DequeuePendingDial(s.pendingDials, s.dials, to) IN
  IF i = 0 THEN s
  ELSE SettleDial([s EXCEPT !.pendingDials = RemoveAt(@, i)],
                  s.pendingDials[i], FALSE, "CallFailed")

\* handleHangup without `this.calls.delete(message.call_id)`
HandleHangupKeepsEntry(s, cid, reason) ==
  IF s.calls[cid] = 0 THEN s
  ELSE CloseStream(
         [s EXCEPT !.callObjs[s.calls[cid]] = ReceiveHangup(@, reason)],
         cid)

HandleHangup(s, cid, reason) ==
  IF s.calls[cid] = 0 THEN s
  ELSE CloseStream(
         EmitHangup(s,
           [s EXCEPT !.callObjs[s.calls[cid]] = ReceiveHangup(@, reason),
                     !.calls[cid] = 0]),
         cid)

\* a binary MSG carries base64 text; other content types carry text that
\* reaches the call's `message` event only
\* handleCallMessage without `if (!call) return`
HandleCallMessageUnchecked(s, cid, contentType, data) ==
  LET k == s.calls[cid]
      s1 == IF contentType = "binary" /\ s.streams[cid] # 0
            THEN [s EXCEPT !.streamObjs[s.streams[cid]] =
                             PushChunk(@, DecodeBase64(data))]
            ELSE s
  IN IF k = 0 THEN s1
     ELSE [s1 EXCEPT !.callObjs[k] = ReceiveMessage(@)]

HandleCallMessage(s, cid, contentType, data) ==
  IF s.calls[cid] = 0 THEN s
  ELSE
    LET k == s.calls[cid]
        s1 == IF contentType = "binary" /\ s.streams[cid] # 0
              THEN [s EXCEPT !.streamObjs[s.streams[cid]] =
                               PushChunk(@, DecodeBase64(data))]
              ELSE s
    IN [s1 EXCEPT !.callObjs[k] = ReceiveMessage(@)]

\* ------------------------------------------------------------ user calls
NextUnused(f, i) ==
  /\ f[i].status = "unused"
  /\ \A j \in DOMAIN f : j < i => f[j].status # "unused"

\* the characters of the address strings
Chars(addr) ==
  CASE addr = "a@x.io" -> << "a", "@", "x", ".", "i", "o" >>
    [] addr = "b@x.io" -> << "b", "@", "x", ".", "i", "o" >>
    [] addr = "" -> << >>
    [] addr = "a" -> << "a" >>
    [] addr = "@x.io" -> << "@", "x", ".", "i", "o" >>
    [] addr = "a@" -> << "a", "@" >>
    [] addr = "a@x" -> << "a", "@", "x" >>
    [] addr = "a@b@x.io" -> << "a", "@", "b", "@", "x", ".", "i", "o" >>
    [] addr = "a@." -> << "a", "@", "." >>

\* String.prototype.split with a one-character separator
RECURSIVE Split(_, _)
Split(cs, sep) ==
  IF cs = << >> THEN << << >> >>
  ELSE LET rest == Split(Tail(cs), sep) IN
       IF Head(cs) = sep THEN << << >> >> \o rest
       ELSE << << Head(cs) >> \o Head(rest) >> \o Tail(rest)

isValidAddress(addr) ==
  IF Chars(addr) = << >> THEN FALSE
  ELSE LET parts == Split(Chars(addr), "@") IN
       IF Len(parts) # 2 THEN FALSE
       ELSE IF parts[1] = << >> \/ parts[2] = << >> THEN FALSE
       ELSE IF ~\E i \in DOMAIN parts[2] : parts[2][i] = "." THEN FALSE
       ELSE TRUE

\* register() without the check of the address
RegisterCallUnvalidated(s, r, addr, opts) ==
  EnsureConnected(
    [s EXCEPT !.registeredAddress = addr,
              !.registerOptions = opts,
              !.shouldAttemptReconnect = TRUE,
              !.manualCloseRequested = FALSE,
              !.regs[r] = [status |-> "connecting", error |-> "",
                           address |-> addr, options |-> opts,
                           joined |-> 0]],
    Cont("register", r))

\* register(address, options) up to its await
RegisterCall(s, r, addr, opts) ==
  IF ~isValidAddress(addr)
  THEN [s EXCEPT !.regs[r] = [status |-> "rejected",
                              error |-> "InvalidAddress",
                              address |-> addr, options |-> opts,
                              joined |-> 0]]
  ELSE
  EnsureConnected(
    [s EXCEPT !.registeredAddress = addr,
              !.registerOptions = opts,
              !.shouldAttemptReconnect = TRUE,
              !.manualCloseRequested = FALSE,
              !.regs[r] = [status |-> "connecting", error |-> "",
                           address |-> addr, options |-> opts,
                           joined |-> 0]],
    Cont("register", r))

\* register() after its await: ok is FALSE when ensureConnected rejected.
\* regs[r].joined observes the deferred the caller's promise hangs on, named
\* by the caller that created it.
RegisterCont(s, r, ok) ==
  IF ~ok
  THEN [s EXCEPT !.regs[r].status = "rejected",
                 !.regs[r].error = "ConnectFailed"]
  ELSE IF s.registerDeferred.active
  THEN [s EXCEPT !.registerDeferred.chain = Append(@, r),
                 !.regs[r].status = "inflight",
                 !.regs[r].joined = Head(s.registerDeferred.chain)]
  ELSE
    LET s1 == [s EXCEPT !.registerDeferred =
                          [active |-> TRUE, chain |-> << r >>],
                        !.regs[r].joined = r]
    IN IF CanSend(s1)
       THEN [SendRegisterMessage(s1) EXCEPT !.regs[r].status = "inflight"]
       ELSE [s1 EXCEPT !.regs[r].status = "rejected",
                       !.regs[r].error = "SendFailed"]

\* dial(to, options) up to its await; options.timeoutMs is not read
DialCall(s, d, to, timeoutMs) ==
  IF ~isValidAddress(to)
  THEN [s EXCEPT !.dials[d] = [status |-> "rejected",
                               error |-> "InvalidAddress",
                               to |-> to, timeoutMs |-> timeoutMs,
                               elapsed |-> FALSE, settles |-> 0]]
  ELSE
  EnsureConnected(
    [s EXCEPT !.shouldAttemptReconnect = TRUE,
              !.manualCloseRequested = FALSE,
              !.dials[d] = [status |-> "connecting", error |-> "",
                            to |-> to, timeoutMs |-> timeoutMs,
                            elapsed |-> FALSE, settles |-> 0]],
    Cont("dial", d))

DialCont(s, d, ok) ==
  IF ~ok
  THEN [s EXCEPT !.dials[d].status = "rejected",
                 !.dials[d].error = "ConnectFailed"]
  ELSE
    LET s1 == [s EXCEPT !.pendingDials = Append(@, d)]
    IN IF CanSend(s1)
       THEN [Send(s1, Frame("DIAL", s.dials[d].to, "")) EXCEPT
               !.dials[d].status = "pending"]
       ELSE [s1 EXCEPT !.dials[d].status = "rejected",
                       !.dials[d].error = "SendFailed"]

ReconnectCall(s) ==
  EnsureConnected(
    ClearReconnectTimer([s EXCEPT !.shouldAttemptReconnect = TRUE,
                                  !.manualCloseRequested = FALSE]),
    Cont("none", 0))

CloseCall(s, sync) ==
  LET t == s.transport
      s1 == IF t # 0 /\ s.tstate[t] \in {"connecting", "open"}
            THEN [s EXCEPT !.userClosed[t] = TRUE]
            ELSE s
  IN TransportCloseCall(
       ClearReconnectTimer(
         ClearHeartbeatTimers([s1 EXCEPT !.shouldAttemptReconnect = FALSE,
                                         !.manualCloseRequested = TRUE])),
       sync)

\* the close code of a heartbeat timeout
HeartbeatTimeoutCode == 4000

\* the heartbeat timeout's callback without `this.transport.close(4000,
\* "heartbeat_timeout")`
HeartbeatTimeoutFiredWithoutClose(s, sync) ==
  [s EXCEPT !.heartbeatTimeoutTimer = FALSE]

\* the heartbeat timeout's callback: no HEARTBEAT_ACK came since the timer
\* was set (an ack clears it), so sinceAck >= heartbeatTimeoutMs
HeartbeatTimeoutFired(s, sync) ==
  LET t == s.transport
      s1 == IF t # 0 /\ s.tstate[t] \in {"connecting", "open"}
            THEN [s EXCEPT !.closeCode[t] = HeartbeatTimeoutCode]
            ELSE s
  IN [TransportCloseCall(s1, sync) EXCEPT !.heartbeatTimeoutTimer = FALSE]

\* the heartbeat interval's callback; this.send throws when the transport
\* does not take the frame
HeartbeatIntervalFired(s) ==
  IF s.connectionState # "connected" THEN s
  ELSE IF ~CanSend(s) THEN s
  ELSE ScheduleHeartbeatTimeout(Send(s, Frame("HEARTBEAT", "", "")))

\* heartbeat(): returns when the engine is not connected; this.send throws
\* when the transport does not take the frame
HeartbeatCall(s) ==
  IF s.connectionState # "connected" THEN s
  ELSE IF ~CanSend(s) THEN s
  ELSE ScheduleHeartbeatTimeout(Send(s, Frame("HEARTBEAT", "", "")))

\* handleMessage, case HEARTBEAT_ACK
HandleHeartbeatAck(s) ==
  [s EXCEPT !.heartbeatTimeoutTimer = FALSE, !.heartbeatAcks = @ + 1]

\* ------------------------------------------------------------ raw frames
\* The text of a frame is the sequence of its JSON lexemes: Str("x") is
\* the string literal "x" and P a punctuator; numbers and bare words are
\* records of kind "num" and "word".
Str(v) == [t |-> "str", v |-> v]

P(v) == [t |-> "punct", v |-> v]

\* a parsed value: its kind, its text when it is a string or a number, and
\* its members when it is an object
Undefined == [kind |-> "undefined", v |-> "", fields |-> << >>]

ParseFailure == [ok |-> FALSE, rest |-> << >>, val |-> Undefined]

\* JSON.parse on a value at the head of ts: a string, a number, null, or an
\* object whose members are parsed in turn; rest is what follows the value
RECURSIVE ParseValue(_)
RECURSIVE ParseMembers(_, _)
ParseValue(ts) ==
  IF ts = << >> THEN ParseFailure
  ELSE LET h == Head(ts) IN
       IF h.t = "str"
       THEN [ok |-> TRUE, rest |-> Tail(ts),
             val |-> [kind |-> "string", v |-> h.v, fields |-> << >>]]
       ELSE IF h.t = "num"
       THEN [ok |-> TRUE, rest |-> Tail(ts),
             val |-> [kind |-> "number", v |-> h.v, fields |-> << >>]]
       ELSE IF h = [t |-> "word", v |-> "null"]
       THEN [ok |-> TRUE, rest |-> Tail(ts),
             val |-> [kind |-> "null", v |-> "", fields |-> << >>]]
       ELSE IF h = P("{")
       THEN IF Len(ts) >= 2 /\ ts[2] = P("}")
            THEN [ok |-> TRUE, rest |-> SubSeq(ts, 3, Len(ts)),
                  val |-> [kind |-> "object", v |-> "", fields |-> << >>]]
            ELSE ParseMembers(Tail(ts), << >>)
       ELSE ParseFailure

ParseMembers(ts, acc) ==
  IF Len(ts) < 3 \/ ts[1].t # "str" \/ ts[2] # P(":") THEN ParseFailure
  ELSE LET m == ParseValue(SubSeq(ts, 3, Len(ts)))
           acc2 == Append(acc, [key |-> ts[1].v, val |-> m.val])
       IN IF ~m.ok \/ m.rest = << >> THEN ParseFailure
          ELSE IF Head(m.rest) = P("}")
          THEN [ok |-> TRUE, rest |-> Tail(m.rest),
                val |-> [kind |-> "object", v |-> "", fields |-> acc2]]
          ELSE IF Head(m.rest) = P(",")
          THEN ParseMembers(Tail(m.rest), acc2)
          ELSE ParseFailure

\* JSON.parse: the whole text is one value
JsonParse(ts) ==
  LET r == ParseValue(ts) IN
  IF r.ok /\ r.rest = << >> THEN [ok |-> TRUE, val |-> r.val]
  ELSE [ok |-> FALSE, val |-> Undefined]

\* message.<key>: the last member of that name, undefined when there is none
Field(val, key) ==
  LET hits == {i \in DOMAIN val.fields : val.fields[i].key = key} IN
  IF hits = {} THEN Undefined
  ELSE val.fields[CHOOSE i \in hits : \A j \in hits : j <= i].val

\* handleMessage on a parsed frame: the switch on message.type; a frame of
\* any other type falls to `default: break`. Reading message.type of null
\* throws, which leaves the engine as it was. MSG frames carry no data
\* here.
HandleParsedMessage(s, message) ==
  LET type == Field(message, "type")
      cid == Field(message, "call_id").v
  IN IF message.kind = "null" THEN s
     ELSE IF type.kind # "string" THEN s
     ELSE CASE type.v = "REGISTERED" -> HandleRegistered(s)
            [] type.v = "REGISTER_FAILED" -> HandleRegisterFailed(s)
            [] type.v = "RING" -> HandleIncomingRing(s, cid)
            [] type.v = "CONNECTED" ->
                 HandleConnected(s, cid, Field(message, "to").v)
            [] type.v = "BUSY" -> HandleBusy(s, Field(message, "to").v)
            [] type.v = "MSG" ->
                 HandleCallMessage(s, cid,
                                   Field(message, "content_type").v, << >>)
            [] type.v = "HANGUP" ->
                 HandleHangup(s, cid, Field(message, "reason").v)
            [] type.v = "HEARTBEAT_ACK" -> HandleHeartbeatAck(s)
            [] OTHER -> s

\* handleRawMessage where a parse failure returns without the `error` event
HandleRawMessageSilent(s, raw) ==
  LET parsed == JsonParse(raw.text) IN
  IF raw.kind \notin {"string", "buffer", "arraybuffer"} THEN s
  ELSE IF raw.text = << >> THEN s
  ELSE IF ~parsed.ok THEN s
  ELSE HandleParsedMessage(s, parsed.val)

\* handleRawMessage: a value that is no string, Buffer or ArrayBuffer, and
\* an empty text, are dropped; a text that does not parse emits `error`
HandleRawMessage(s, raw) ==
  LET parsed == JsonParse(raw.text) IN
  IF raw.kind \notin {"string", "buffer", "arraybuffer"} THEN s
  ELSE IF raw.text = << >> THEN s
  ELSE IF ~parsed.ok THEN [s EXCEPT !.parseErrors = @ + 1]
  ELSE HandleParsedMessage(s, parsed.val)

\* the texts of the frames a transport delivers
TypeOnly(type) == << P("{"), Str("type"), P(":"), Str(type), P("}") >>

KnownTexts ==
  {TypeOnly("REGISTERED"), TypeOnly("HEARTBEAT_ACK"),
   << P("{"), Str("type"), P(":"), Str("RING"), P(","),
      Str("call_id"), P(":"), Str("c1"), P("}") >>,
   << P("{"), Str("type"), P(":"), Str("HANGUP"), P(","),
      Str("call_id"), P(":"), Str("c1"), P(","),
      Str("reason"), P(":"), Str("bye"), P("}") >>}

\* well-formed JSON whose type the switch does not know
UnknownTypeTexts ==
  {TypeOnly("registered"), TypeOnly("RINGING"),
   << P("{"), Str("type"), P(":"), [t |-> "num", v |-> "7"], P("}") >>,
   << P("{"), P("}") >>,
   << P("{"), Str("type"), P(":"), P("{"), Str("type"), P(":"),
      Str("RING"), P("}"), P("}") >>}

\* texts that JSON.parse rejects
InvalidTexts ==
  {<< [t |-> "word", v |-> "oops"] >>,
   << P("{"), Str("type"), P(":"), Str("RING") >>,
   << P("{"), Str("type"), Str("RING"), P("}") >>,
   << P("{"), Str("type"), P(":"), Str("RING"), P(","), P("}") >>,
   << P("{"), Str("type"), P(":"), Str("RING"), P("}"), P("}") >>}

RawFrames ==
  [kind : {"string"},
   text : KnownTexts \cup UnknownTypeTexts \cup InvalidTexts \cup {<< >>}]
    \cup [kind : {"buffer"}, text : {TypeOnly("REGISTERED"), << [t |-> "word", v |-> "oops"] >>}]
    \cup [kind : {"other"}, text : {TypeOnly("REGISTERED")}]

\* Call.answer(): throws on an outbound call, on a call that is not
\* ringing, and when the ANSWER frame cannot be sent
\* what answer() throws: nothing ("ok"), its own illegal-state errors, or
\* the error of the send it delegates to
AnswerOutcome(s, k) ==
  LET call == s.callObjs[k] IN
  IF call.direction # "inbound" \/ call.state # "ringing"
  THEN "IllegalState"
  ELSE IF ~CanSend(s) THEN "SendFailed"
  ELSE "ok"

\* answer() without `if (this.state !== "ringing") throw`
CallAnswerAnyState(s, k) ==
  LET call == s.callObjs[k] IN
  IF call.direction # "inbound" \/ ~CanSend(s)
  THEN s
  ELSE [Send(s, Frame("ANSWER", call.id, "")) EXCEPT
          !.callObjs[k].state = "active",
          !.callObjs[k].answerSent = @ + 1]

CallAnswer(s, k) ==
  LET call == s.callObjs[k] IN
  IF call.direction # "inbound" \/ call.state # "ringing" \/ ~CanSend(s)
  THEN s
  ELSE [Send(s, Frame("ANSWER", call.id, "")) EXCEPT
          !.callObjs[k].state = "active",
          !.callObjs[k].answerSent = @ + 1]

\* what Call.send() throws
SendOutcome(s, k) ==
  IF s.callObjs[k].state # "active" THEN "IllegalState"
  ELSE IF ~CanSend(s) THEN "SendFailed"
  ELSE "ok"

\* Call.send(message) and the controller's send it delegates to
CallSendAlways(s, k) ==
  IF ~CanSend(s) THEN s
  ELSE [Send(s, Frame("MSG", s.callObjs[k].id, "")) EXCEPT
          !.callObjs[k].msgSent = @ + 1]

CallSend(s, k) ==
  IF s.callObjs[k].state # "active" THEN s
  ELSE IF ~CanSend(s) THEN s
  ELSE [Send(s, Frame("MSG", s.callObjs[k].id, "")) EXCEPT
          !.callObjs[k].msgSent = @ + 1]

\* how the promise of tunnel() settles at its first check
TunnelOutcome(s, k) ==
  IF s.callObjs[k].state # "active" THEN "IllegalState" ELSE "ok"

\* Call.tunnel(process, options) up to `await process.start?.()`; the
\* continuation's ok carries options.closeOnHangup !== false
CallTunnelWith(s, k, closeOnHangup) ==
  LET s1 == [s EXCEPT !.callObjs[k].tunnelCalls = @ + 1] IN
  IF s.callObjs[k].state # "active" THEN s1
  ELSE [s1 EXCEPT !.callObjs[k].processStarts = @ + 1,
                  !.microQ = Append(@, [kind |-> "tunnel", id |-> k,
                                        ok |-> closeOnHangup])]

\* Call.tunnel(process)
CallTunnel(s, k) == CallTunnelWith(s, k, TRUE)

\* Call.tunnel(process) up to `await process.start?.()`, with a process
\* whose start() returns a promise that resolves later
CallTunnelSlowStart(s, k) ==
  LET s1 == [s EXCEPT !.callObjs[k].tunnelCalls = @ + 1] IN
  IF s.callObjs[k].state # "active" THEN s1
  ELSE [s1 EXCEPT !.callObjs[k].processStarts = @ + 1,
                  !.callObjs[k].startPending = TRUE]

\* the promise of process.start() resolves: tunnel() is to resume
StartResolved(s, k) ==
  [s EXCEPT !.callObjs[k].startPending = FALSE,
            !.microQ = Append(@, Cont("tunnel", k))]

\* tunnelNodeProcess / tunnelWebProcess: the stream of the call is obtained
\* and piped, the handle is made and added to activeTunnels. The call's
\* controller was made while useWebStreams had the value it has now, the
\* factory handing out one kind of transport.
TunnelCont(s, k, closeOnHangup) ==
  LET s1 == GetOrCreateNodeStream(s, s.callObjs[k].id) IN
  [s1 EXCEPT !.handles =
     Append(@, NewHandle(k, s.useWebStreams, s1.streams[s.callObjs[k].id],
                         closeOnHangup))]

\* the frame a TunnelStream's sendChunk hands to send() for one written
\* chunk
SendChunk(cid, bytes) ==
  [type |-> "MSG", call_id |-> cid, content_type |-> "binary",
   data |-> EncodeBase64(bytes)]

\* The user writes one chunk into stream i. TunnelStream._write hands it to
\* sendChunk, which calls send(); when send() throws, the callback gets the
\* error, the stream is destroyed, and its close event runs the cleanup
\* that deletes the streams entry of the call id.
StreamWrite(s, i, bytes) ==
  LET st == s.streamObjs[i]
      s1 == [s EXCEPT !.streamObjs[i].writes = @ + 1]
  IN IF st.destroyed THEN s1
     ELSE IF CanSend(s)
     THEN [Send(s1, SendChunk(st.id, bytes)) EXCEPT
             !.streamObjs[i].framesSent = @ + 1]
     ELSE [s1 EXCEPT !.streamObjs[i].destroyed = TRUE,
                     !.streams[st.id] = 0]

\* handleMessage for the frames of a call
HandleMessage(s, f) ==
  CASE f.type = "RING" -> HandleIncomingRing(s, f.call_id)
    [] f.type = "MSG" ->
         HandleCallMessage(s, f.call_id, f.content_type, f.data)
    [] OTHER -> HandleHangup(s, f.call_id, f.data)

\* Call.hangup() and the controller's hangup it delegates to
CallHangup(s, k) ==
  LET call == s.callObjs[k]
      s1 == CloseStream(s, call.id)
  IN IF call.state = "ended" THEN s
     ELSE IF ~CanSend(s1) THEN s1
     ELSE [Send(s1, Frame("HANGUP", call.id, "")) EXCEPT
             !.callObjs[k].hangupSent = @ + 1]

\* the reconnect timer's callback up to ensureConnected()
ReconnectTimerFired(s) ==
  EnsureConnected([s EXCEPT !.reconnectTimer = 0,
                            !.lastDelay = s.reconnectTimer],
                  Cont("reconnectTimer", 0))

\* its .then / .catch
ReconnectSettled(s, ok) ==
  IF ok
  THEN [s EXCEPT !.currentReconnectDelay = s.baseReconnectBackoffMs,
                 !.lastDelay = 0]
  ELSE ScheduleReconnect(
         [s EXCEPT !.currentReconnectDelay =
                     Min(s.currentReconnectDelay * 2,
                         s.maxReconnectBackoffMs)])

\* ------------------------------------------------------------ actions
Register ==
  \E r \in RegIds, in \in {<< "a@x.io", "o1" >>, << "b@x.io", "o2" >>} :
    /\ NextUnused(regs, r)
    /\ CanEnsure(Cur)
    /\ Commit(RegisterCall(Cur, r, in[1], in[2]))

Dial ==
  \E d \in DialIds, to \in Addresses :
    /\ NextUnused(dials, d)
    /\ CanEnsure(Cur)
    /\ Commit(DialCall(Cur, d, to, 0))

\* register() and dial() with a string that is not one of Addresses; they
\* need no transport from the factory
RegisterOther ==
  \E r \in RegIds, addr \in OtherAddresses :
    /\ NextUnused(regs, r)
    /\ isValidAddress(addr) => CanEnsure(Cur)
    /\ Commit(RegisterCall(Cur, r, addr, "o1"))

DialOther ==
  \E d \in DialIds, to \in OtherAddresses :
    /\ NextUnused(dials, d)
    /\ isValidAddress(to) => CanEnsure(Cur)
    /\ Commit(DialCall(Cur, d, to, 0))

DialWithTimeout ==
  \E d \in DialIds, to \in Addresses :
    /\ NextUnused(dials, d)
    /\ CanEnsure(Cur)
    /\ Commit(DialCall(Cur, d, to, 1))

Reconnect ==
  /\ CanEnsure(Cur)
  /\ Commit(ReconnectCall(Cur))

Close ==
  \E sync \in BOOLEAN : Commit(CloseCall(Cur, sync))

Answer ==
  \E k \in 1..Len(callObjs) : Commit(CallAnswer(Cur, k))

Hangup ==
  \E k \in 1..Len(callObjs) :
    /\ callObjs[k].hangupSent < MaxHangups
    /\ Commit(CallHangup(Cur, k))

\* Call.getStream()
GetStream ==
  \E k \in 1..Len(callObjs) :
    /\ streams[callObjs[k].id] = 0
    /\ Len(streamObjs) < MaxStreams
    /\ Commit(GetOrCreateNodeStream(Cur, callObjs[k].id))

Write ==
  \E i \in 1..Len(streamObjs), bytes \in Chunks :
    /\ streamObjs[i].writes < MaxWrites
    /\ Commit(StreamWrite(Cur, i, bytes))

SendMsg ==
  \E k \in 1..Len(callObjs) :
    /\ callObjs[k].msgSent < MaxMsgs
    /\ Commit(CallSend(Cur, k))

Tunnel ==
  \E k \in 1..Len(callObjs) :
    /\ callObjs[k].tunnelCalls < MaxTunnels
    /\ Len(streamObjs) < MaxStreams
    /\ Commit(CallTunnel(Cur, k))

\* tunnel(process, {closeOnHangup: false})
TunnelKeepOpen ==
  \E k \in 1..Len(callObjs) :
    /\ callObjs[k].tunnelCalls < MaxTunnels
    /\ Len(streamObjs) < MaxStreams
    /\ Commit(CallTunnelWith(Cur, k, FALSE))

\* tunnel(process) with a process that takes time to start
TunnelSlowStart ==
  \E k \in 1..Len(callObjs) :
    /\ callObjs[k].tunnelCalls < MaxTunnels
    /\ Len(streamObjs) < MaxStreams
    /\ Commit(CallTunnelSlowStart(Cur, k))

ProcessStarted ==
  \E k \in 1..Len(callObjs) :
    /\ microQ = << >>
    /\ callObjs[k].startPending
    /\ Commit(StartResolved(Cur, k))

\* the user calls handle.close(reason)
HandleClose ==
  \E i \in 1..Len(handles), reason \in {"done", "again"} :
    /\ handles[i].closeCalls < MaxCloses
    /\ Commit([Cur EXCEPT !.handles[i] = CloseHandle(@, reason)])

\* the process closes its stdout of its own accord
ProcessStdoutCloses ==
  \E i \in 1..Len(handles) :
    /\ ~handles[i].stdoutClosed
    /\ Commit([Cur EXCEPT !.handles[i].stdoutClosed = TRUE])

\* both pipes of a tunnelWebProcess handle have settled, the one from the
\* call's stream because the stream was ended, and close() goes on
PipesSettled ==
  \E i \in 1..Len(handles) :
    /\ microQ = << >>
    /\ handles[i].waiting
    /\ handles[i].stdoutClosed
    /\ streamObjs[handles[i].stream].remoteEnded
    /\ Commit([Cur EXCEPT !.handles[i] = ResumeClose(@)])

RunMicrotask ==
  /\ microQ # << >>
  /\ LET c == Head(microQ)
         s == [Cur EXCEPT !.microQ = Tail(@)]
     IN Commit(CASE c.kind = "register" -> RegisterCont(s, c.id, c.ok)
                 [] c.kind = "dial" -> DialCont(s, c.id, c.ok)
                 [] c.kind = "tunnel" -> TunnelCont(s, c.id, c.ok)
                 [] OTHER -> ReconnectSettled(s, c.ok))

ReconnectTimer ==
  /\ microQ = << >>
  /\ reconnectTimer # 0
  /\ CanEnsure(Cur)
  /\ Commit(ReconnectTimerFired(Cur))

\* the user's heartbeat()
Heartbeat == Commit(HeartbeatCall(Cur))

HeartbeatInterval ==
  /\ microQ = << >>
  /\ heartbeatTimer
  /\ Commit(HeartbeatIntervalFired(Cur))

HeartbeatTimeout ==
  \E sync \in BOOLEAN :
    /\ microQ = << >>
    /\ heartbeatTimeoutTimer
    /\ Commit(HeartbeatTimeoutFired(Cur, sync))

\* the transport emits `open`; resolvedAt[t] and latestAt[t] observe, at that
\* moment, the arguments of the last register() that resolved and of the
\* last register() issued
TransportOpen ==
  \E t \in 1..nTransports :
    /\ microQ = << >>
    /\ tstate[t] = "connecting"
    /\ LET used == {r \in RegIds : regs[r].status # "unused"}
           last == CHOOSE x \in used : \A y \in used : y <= x
           latest == IF used = {} THEN NoReg
                     ELSE [address |-> regs[last].address,
                           options |-> regs[last].options]
           s == [Cur EXCEPT !.tstate[t] = "open",
                             !.resolvedAt[t] = resolvedReg,
                             !.latestAt[t] = latest]
       IN Commit(IF connectListeners[t] THEN HandleOpen(s, t) ELSE s)

\* the connection attempt fails: the transport emits `error` and connect()
\* rejects; a transport closed while connecting may emit `error` before
\* `close`
TransportError ==
  \E t \in 1..nTransports :
    /\ microQ = << >>
    /\ \/ tstate[t] = "connecting"
       \/ tstate[t] = "closing" /\ connectListeners[t]
    /\ LET s == [Cur EXCEPT !.tstate[t] =
                   IF @ = "connecting" THEN "errored" ELSE @]
       IN Commit(HandleConnectError(s, t))

\* the transport emits `close`
TransportClose ==
  \E t \in 1..nTransports :
    /\ microQ = << >>
    /\ tstate[t] \in {"connecting", "open", "closing", "errored"}
    /\ Commit(HandleTransportClose([Cur EXCEPT !.tstate[t] = "closed"]))

\* a transport that was asked to close emits `close`
CloseCompletes ==
  \E t \in 1..nTransports :
    /\ microQ = << >>
    /\ tstate[t] = "closing"
    /\ Commit(HandleTransportClose([Cur EXCEPT !.tstate[t] = "closed"]))

\* an inbound frame; the message listener stays on every transport
Receiving == microQ = << >> /\ \E t \in 1..nTransports : tstate[t] = "open"

RecvRegistered == Receiving /\ Commit(HandleRegistered(Cur))

RecvRegisterFailed == Receiving /\ Commit(HandleRegisterFailed(Cur))

\* the peer dials: the Exchange, which never reuses a call id, relays RING
PeerRing ==
  \E cid \in CallIds :
    /\ Receiving
    /\ peerCall[cid] = "none"
    /\ Len(wire) < MaxWire
    /\ Commit([Cur EXCEPT
                 !.peerCall[cid] = "dialing",
                 !.wire = Append(@, [type |-> "RING", call_id |-> cid,
                                     content_type |-> "", data |-> ""])])

\* the Exchange relays this engine's ANSWER to the peer as CONNECTED
PeerConnected ==
  \E cid \in CallIds :
    /\ peerCall[cid] = "dialing"
    /\ calls[cid] # 0 /\ callObjs[calls[cid]].answerSent > 0
    /\ Commit([Cur EXCEPT !.peerCall[cid] = "active"])

\* the peer writes a chunk into its TunnelStream of an active call:
\* TunnelStream._write sends it as one MSG frame
PeerWrite ==
  \E cid \in CallIds, chunk \in Chunks :
    /\ peerCall[cid] = "active"
    /\ Len(wire) < MaxWire
    /\ Len(written[cid]) + Len(chunk) <= MaxWritten
    /\ Commit([Cur EXCEPT !.wire = Append(@, SendChunk(cid, chunk)),
                           !.written[cid] = @ \o chunk])

\* the peer hangs up: its HANGUP follows its MSG frames
PeerHangup ==
  \E cid \in CallIds, reason \in Reasons :
    /\ peerCall[cid] = "active"
    /\ Len(wire) < MaxWire
    /\ Commit([Cur EXCEPT
                 !.peerCall[cid] = "ended",
                 !.wire = Append(@, [type |-> "HANGUP", call_id |-> cid,
                                     content_type |-> "", data |-> reason])])

\* the Exchange delivers the oldest frame in flight
Deliver ==
  /\ Receiving
  /\ wire # << >>
  /\ Commit(HandleMessage([Cur EXCEPT !.wire = Tail(@)], Head(wire)))

RecvHeartbeatAck ==
  /\ Receiving
  /\ heartbeatAcks < MaxAcks
  /\ Commit(HandleHeartbeatAck(Cur))

\* the transport emits `message` with a raw frame
RecvRaw ==
  \E raw \in RawFrames :
    /\ Receiving
    /\ parseErrors < MaxParseErrors
    /\ LET type == Field(JsonParse(raw.text).val, "type").v IN
         /\ type = "RING" => Len(callObjs) < MaxCallObjs
         /\ type = "HEARTBEAT_ACK" => heartbeatAcks < MaxAcks
    /\ Commit(HandleRawMessage(Cur, raw))

RecvRing ==
  \E cid \in CallIds :
    /\ Receiving
    /\ Len(callObjs) < MaxCallObjs
    /\ Commit(HandleIncomingRing(Cur, cid))

RecvConnected ==
  \E cid \in CallIds, to \in Addresses \cup {NoAddr} :
    /\ Receiving
    /\ calls[cid] # 0 \/ pendingDials = << >> \/ Len(callObjs) < MaxCallObjs
    /\ Commit(HandleConnected(Cur, cid, to))

RecvBusy ==
  \E to \in Addresses : Receiving /\ Commit(HandleBusy(Cur, to))

RecvMsg ==
  \E cid \in CallIds, ct \in {"text", "binary"}, chunk \in Chunks :
    /\ Receiving
    /\ calls[cid] # 0 => callObjs[calls[cid]].messages < MaxMsgs
    /\ Commit(HandleCallMessage(Cur, cid, ct, EncodeBase64(chunk)))

RecvHangup ==
  \E cid \in CallIds, reason \in Reasons :
    Receiving /\ Commit(HandleHangup(Cur, cid, reason))

\* the clock passes the deadline of a dial that asked for timeoutMs
DialDeadline ==
  \E d \in DialIds :
    /\ microQ = << >>
    /\ dials[d].timeoutMs > 0
    /\ dials[d].status = "pending"
    /\ ~dials[d].elapsed
    /\ Commit([Cur EXCEPT !.dials[d].elapsed = TRUE])

Next ==
  \/ Register \/ Dial \/ DialWithTimeout \/ Reconnect \/ Close
  \/ Answer \/ Hangup \/ RunMicrotask \/ ReconnectTimer
  \/ TransportOpen \/ TransportError \/ TransportClose
  \/ RecvRegistered \/ RecvRegisterFailed \/ RecvRing \/ RecvConnected
  \/ RecvBusy \/ RecvHangup \/ DialDeadline
  \/ GetStream \/ Write \/ SendMsg \/ Tunnel \/ RecvMsg
  \/ RegisterOther \/ DialOther
  \/ TunnelKeepOpen \/ HandleClose \/ ProcessStdoutCloses \/ PipesSettled
  \/ TunnelSlowStart \/ ProcessStarted
  \/ HeartbeatInterval \/ HeartbeatTimeout \/ RecvHeartbeatAck
  \/ CloseCompletes \/ Heartbeat \/ RecvRaw
  \/ PeerRing \/ PeerConnected \/ PeerWrite \/ PeerHangup \/ Deliver

Spec == Init /\ [][Next]_vars

\* ------------------------------------------------------------ call specification
\* Calls over connections the user opens with dial() and closes with
\* close(): no registration, no heartbeat, no automatic reconnect.
InitCalls ==
  /\ Init
  /\ ~autoReconnect
  /\ ~registerOnConnect
  /\ heartbeatIntervalMs = 0
  /\ heartbeatTimeoutMs = 1

NextCalls ==
  \/ Dial \/ Close \/ Answer \/ Hangup
  \/ RunMicrotask
  \/ TransportOpen \/ TransportClose
  \/ RecvRing \/ RecvConnected \/ RecvHangup

SpecCalls == InitCalls /\ [][NextCalls]_vars

\* ------------------------------------------------------------ registration specification
\* Registration over connections opened by register(), by reconnect() and by
\* the reconnect timer, under every setting of the options that reach it.
NextReg ==
  \/ Register \/ Reconnect \/ Close
  \/ RunMicrotask \/ ReconnectTimer
  \/ TransportOpen \/ TransportError \/ TransportClose
  \/ RecvRegistered \/ RecvRegisterFailed

SpecReg == Init /\ [][NextReg]_vars

\* ------------------------------------------------------------ dial specification
\* Outbound dials, with and without timeoutMs, over connections the user
\* opens and closes: no registration, no heartbeat, no automatic reconnect.
NextDial ==
  \/ Dial \/ DialWithTimeout \/ Reconnect \/ Close
  \/ RunMicrotask
  \/ TransportOpen \/ TransportError \/ TransportClose
  \/ RecvConnected \/ RecvBusy \/ DialDeadline

SpecDial == InitCalls /\ [][NextDial]_vars

\* ------------------------------------------------------------ re-registration specification
\* An engine with registerOnConnect = true that registers, loses its
\* connection, reconnects (by the timer or by a user operation) and dials.
InitRereg ==
  /\ Init
  /\ registerOnConnect
  /\ heartbeatIntervalMs = 0
  /\ heartbeatTimeoutMs = 1

NextRereg ==
  \/ Register \/ Dial \/ Close
  \/ RunMicrotask \/ ReconnectTimer
  \/ TransportOpen \/ TransportError \/ TransportClose
  \/ RecvRegistered \/ RecvRegisterFailed

SpecRereg == InitRereg /\ [][NextRereg]_vars

\* ------------------------------------------------------------ message specification
\* send() and tunnel() on inbound calls in every state, over connections
\* the user opens with reconnect() and closes with close().
NextMsgs ==
  \/ Reconnect \/ Close \/ Answer
  \/ SendMsg \/ Tunnel
  \/ RunMicrotask
  \/ TransportOpen \/ TransportClose
  \/ RecvRing \/ RecvHangup

SpecMsgs == InitCalls /\ [][NextMsgs]_vars

\* ------------------------------------------------------------ stream specification
\* Inbound messages and byte streams of inbound calls over connections the
\* user opens with reconnect() and closes with close().
NextStreams ==
  \/ Reconnect \/ Close
  \/ GetStream
  \/ TransportOpen \/ TransportClose
  \/ RecvRing \/ RecvMsg \/ RecvHangup

SpecStreams == InitCalls /\ [][NextStreams]_vars

\* ------------------------------------------------------------ disconnect specification
\* Dials, calls and streams over connections that the user or the network
\* closes, with and without automatic reconnect.
InitCascade ==
  /\ Init
  /\ ~registerOnConnect
  /\ heartbeatIntervalMs = 0
  /\ heartbeatTimeoutMs = 1

NextCascade ==
  \/ Dial \/ Close
  \/ GetStream
  \/ RunMicrotask \/ ReconnectTimer
  \/ TransportOpen \/ TransportClose
  \/ RecvRing \/ RecvConnected

SpecCascade == InitCascade /\ [][NextCascade]_vars

\* ------------------------------------------------------------ heartbeat specification
\* An engine with heartbeats on, over transports that open, carry frames and
\* close only when the engine closes them, and that stop delivering
\* HEARTBEAT_ACK after MaxAcks of them. The user registers; nobody calls
\* close().
InitHeartbeat ==
  /\ Init
  /\ ~registerOnConnect
  /\ heartbeatIntervalMs = 1

NextHeartbeat ==
  \/ Register
  \/ RunMicrotask \/ ReconnectTimer
  \/ HeartbeatInterval \/ HeartbeatTimeout
  \/ TransportOpen \/ CloseCompletes
  \/ RecvRegistered \/ RecvRing \/ RecvHeartbeatAck

\* timers fire, microtasks run, and a transport asked to close closes
SpecHeartbeat ==
  /\ InitHeartbeat /\ [][NextHeartbeat]_vars
  /\ WF_vars(RunMicrotask)
  /\ WF_vars(HeartbeatInterval)
  /\ WF_vars(HeartbeatTimeout)
  /\ WF_vars(CloseCompletes)

\* ------------------------------------------------------------ keepalive specification
\* Connections the user opens with reconnect() and closes with close(), and
\* that the network closes or fails to open, over a factory that hands out
\* MaxStaleTransports transports, under every combination of the heartbeat
\* options; the user also sends heartbeats with heartbeat(), and the
\* Exchange acknowledges up to MaxAcks of them.
InitKeepalive ==
  /\ InitEngine(MaxStaleTransports, FALSE)
  /\ ~registerOnConnect

NextKeepalive ==
  \/ Reconnect \/ Heartbeat \/ Close
  \/ RunMicrotask \/ ReconnectTimer
  \/ HeartbeatInterval \/ HeartbeatTimeout
  \/ TransportOpen \/ TransportError \/ TransportClose
  \/ RecvHeartbeatAck

\* timers fire and microtasks run
SpecKeepalive ==
  /\ InitKeepalive /\ [][NextKeepalive]_vars
  /\ WF_vars(RunMicrotask)
  /\ WF_vars(HeartbeatTimeout)

\* ------------------------------------------------------------ raw frame specification
\* Raw frames, well formed or not, arrive on connections the user opens
\* with register() and closes with close(): no heartbeat, no automatic
\* reconnect.
NextRaw ==
  \/ Register \/ Close
  \/ RunMicrotask
  \/ TransportOpen \/ TransportClose
  \/ RecvRaw

SpecRaw == InitCalls /\ [][NextRaw]_vars

\* ------------------------------------------------------------ reconnect specification
\* An engine whose connections the user opens with register() and closes
\* with close(), and that the network and the heartbeat timeout close;
\* connection attempts open, fail with an error, or close before opening.
InitReconnect ==
  /\ Init
  /\ ~registerOnConnect
  /\ heartbeatTimeoutMs = 1

NextReconnect ==
  \/ Register \/ Close
  \/ RunMicrotask \/ ReconnectTimer \/ HeartbeatTimeout
  \/ TransportOpen \/ TransportError \/ TransportClose

\* microtasks run and the reconnect timer fires
SpecReconnect ==
  /\ InitReconnect /\ [][NextReconnect]_vars
  /\ WF_vars(RunMicrotask)
  /\ WF_vars(ReconnectTimer)

\* ------------------------------------------------------------ stream write specification
\* The user writes into the byte streams of inbound calls, ringing,
\* answered or ended, over connections opened with reconnect().
NextWrite ==
  \/ Reconnect \/ Answer
  \/ GetStream \/ Write
  \/ TransportOpen \/ TransportClose
  \/ RecvRing \/ RecvHangup

SpecWrite == InitCalls /\ [][NextWrite]_vars

\* ------------------------------------------------------------ address check specification
\* register() and dial() with well-formed and other strings, over
\* connections that open.
InitValidate ==
  /\ Init
  /\ ~autoReconnect
  /\ ~registerOnConnect
  /\ heartbeatIntervalMs = 0
  /\ heartbeatTimeoutMs = 1

NextValidate ==
  \/ Register \/ RegisterOther \/ Dial \/ DialOther
  \/ RunMicrotask
  \/ TransportOpen

SpecValidate == InitValidate /\ [][NextValidate]_vars

\* ------------------------------------------------------------ process tunnel specification
\* Inbound calls that the user answers and tunnels a process through, with
\* either kind of transport; the user closes the handles, the peer hangs
\* up, the process may close its stdout.
InitProcess ==
  /\ \E browser \in BOOLEAN : InitEngine(MaxTransports, browser)
  /\ ~autoReconnect
  /\ ~registerOnConnect
  /\ heartbeatIntervalMs = 0
  /\ heartbeatTimeoutMs = 1

NextProcess ==
  \/ Reconnect \/ TransportOpen
  \/ RecvRing \/ Answer \/ RecvHangup
  \/ Tunnel \/ TunnelKeepOpen \/ TunnelSlowStart \/ ProcessStarted
  \/ RunMicrotask
  \/ HandleClose \/ ProcessStdoutCloses \/ PipesSettled

\* microtasks run, and close() goes on once its pipes have settled
SpecProcess ==
  /\ InitProcess /\ [][NextProcess]_vars
  /\ WF_vars(RunMicrotask)
  /\ WF_vars(PipesSettled)

\* ------------------------------------------------------------ stale transport specification
\* An engine whose factory hands out one transport more, so that a failed
\* attempt's transport, its successor and a third one exist in one run;
\* the user registers and reconnects, attempts open, fail with an error,
\* or close, and the reconnect timer fires.
InitStale ==
  /\ InitEngine(MaxStaleTransports, FALSE)
  /\ ~registerOnConnect
  /\ heartbeatIntervalMs = 0
  /\ heartbeatTimeoutMs = 1

NextStale ==
  \/ Register \/ Reconnect
  \/ RunMicrotask \/ ReconnectTimer
  \/ TransportOpen \/ TransportError \/ TransportClose

SpecStale == InitStale /\ [][NextStale]_vars

\* ------------------------------------------------------------ tunnel specification
\* This engine and a peer engine joined by an Exchange that relays the
\* peer's frames in order over a connection that stays open: the peer
\* dials, this engine answers and obtains its stream at any moment, the
\* peer writes chunks and hangs up.
NextTunnel ==
  \/ Reconnect \/ TransportOpen
  \/ Answer \/ GetStream
  \/ PeerRing \/ PeerConnected \/ PeerWrite \/ PeerHangup \/ Deliver

SpecTunnel == InitCalls /\ [][NextTunnel]_vars

\* ------------------------------------------------------------ claims
\* C1: once a Call object has entered state ended, no frame, user operation
\* or transport event takes it to any other state.
C1_EndedIsTerminal ==
  [][\A k \in 1..Len(callObjs) :
       callObjs[k].state = "ended" => callObjs'[k].state = "ended"]_vars

\* an ended Call whose id has since been carried by a later RING or CONNECTED
\* that produced a live Call
C1_Witness ==
  \E k1, k2 \in 1..Len(callObjs) :
    /\ k1 < k2
    /\ callObjs[k1].id = callObjs[k2].id
    /\ callObjs[k1].state = "ended"
    /\ callObjs[k2].state \in {"ringing", "active"}

\* C6: hangup() on a call that is not ended sends one HANGUP frame and leaves
\* the call ended; a further hangup() sends nothing.
C6_HangupEndsCallOnce ==
  \A k \in 1..Len(callObjs) :
    /\ callObjs[k].hangupSent >= 1 => callObjs[k].state = "ended"
    /\ callObjs[k].hangupSent <= 1

\* C2: from the first register() until REGISTERED, REGISTER_FAILED or a
\* disconnect completes the registration, one REGISTER frame, not more, is
\* handed to the transport.
C2_OneRegisterFrame == registerFrames <= 1

\* C3: register() calls whose promises hang on one registration deferred
\* have the same outcome at every moment: all pending, all resolved, or all
\* rejected with the same error.
C3_SameOutcome ==
  \A r1, r2 \in RegIds :
    (regs[r1].joined # 0 /\ regs[r1].joined = regs[r2].joined)
      => /\ regs[r1].status = regs[r2].status
         /\ regs[r1].error = regs[r2].error

\* C8: each armed reconnect delay is the base for the first attempt after a
\* successful connect and min(2 * previous delay, cap) after a failed
\* attempt.
C8_BackoffSequence ==
  reconnectTimer # 0 =>
    reconnectTimer = IF lastDelay = 0 THEN baseReconnectBackoffMs
                     ELSE Min(2 * lastDelay, maxReconnectBackoffMs)

\* C9: from close() until the next register(), dial() or reconnect(), no
\* reconnect timer is armed and no transport is constructed.
C9_NoReconnectAfterClose ==
  /\ [](manualCloseRequested => reconnectTimer = 0)
  /\ [][(manualCloseRequested /\ manualCloseRequested')
          => nTransports' = nTransports]_vars

\* C10: no register() or dial() is left waiting on a connection attempt that
\* is over: once the transport of the attempt has closed, every caller that
\* waited on the attempt has been resumed.
C10_AttemptOverResumesCallers ==
  \A t \in TransportIds : tstate[t] = "closed" => waiters[t] = << >>

\* C4: when a transport closes, every dial in the pending-dial FIFO at that
\* moment is rejected with the disconnected error and the FIFO is empty
\* afterwards; no dial's completion is settled more than once.
C4_CloseRejectsPendingDials ==
  /\ [][(\E t \in TransportIds : tstate[t] # "closed" /\ tstate'[t] = "closed")
          => /\ pendingDials' = << >>
             /\ \A i \in 1..Len(pendingDials) :
                  /\ dials'[pendingDials[i]].status = "rejected"
                  /\ dials'[pendingDials[i]].error = "Disconnected"]_vars
  /\ [](\A d \in DialIds : dials[d].settles <= 1)

\* C5: a dial given timeoutMs whose deadline has passed without a matching
\* CONNECTED or BUSY is rejected with the timeout error and is no longer in
\* the pending-dial FIFO.
C5_DialTimeoutRejects ==
  \A d \in DialIds :
    dials[d].elapsed =>
      /\ dials[d].status = "rejected"
      /\ dials[d].error = "Timeout"
      /\ \A i \in 1..Len(pendingDials) : pendingDials[i] # d

C13_ConnectedResolvesOneDial ==
  \A cid \in CallIds, to \in Addresses \cup {NoAddr} :
    (Receiving /\ calls[cid] = 0) =>
      LET s2 == HandleConnected(Cur, cid, to)
          q == pendingDials
          hits == {j \in 1..Len(q) : dials[q[j]].to = to}
          i == IF hits = {} THEN 1
               ELSE CHOOSE j \in hits : \A h \in hits : j <= h
      IN IF q = << >> THEN s2 = Cur
         ELSE /\ dials[q[i]].status = "pending"
              /\ s2.dials[q[i]].status = "resolved"
              /\ \A e \in DialIds : e # q[i] => s2.dials[e] = dials[e]
              /\ s2.pendingDials =
                   SubSeq(q, 1, i - 1) \o SubSeq(q, i + 1, Len(q))
              /\ Len(s2.callObjs) = Len(callObjs) + 1
              /\ s2.calls[cid] = Len(s2.callObjs)

\* C14: a BUSY removes one pending dial, the oldest one whose destination
\* equals `to`, else the oldest, and rejects that dial with call-failed; it
\* creates no Call, leaves the other dials pending and in order, and is a
\* no-op with an empty FIFO.
C14_BusyRejectsOneDial ==
  \A to \in Addresses : Receiving =>
    LET s2 == HandleBusy(Cur, to)
        q == pendingDials
        hits == {j \in 1..Len(q) : dials[q[j]].to = to}
        i == IF hits = {} THEN 1
             ELSE CHOOSE j \in hits : \A h \in hits : j <= h
    IN IF q = << >> THEN s2 = Cur
       ELSE /\ dials[q[i]].status = "pending"
            /\ s2.dials[q[i]].status = "rejected"
            /\ s2.dials[q[i]].error = "CallFailed"
            /\ \A e \in DialIds : e # q[i] => s2.dials[e] = dials[e]
            /\ s2.pendingDials =
                 SubSeq(q, 1, i - 1) \o SubSeq(q, i + 1, Len(q))
            /\ s2.callObjs = callObjs /\ s2.calls = calls

\* C15 (as stated): answer() on an inbound ringing call succeeds, hands one
\* ANSWER frame to the transport and makes the call active; on any other
\* call it fails with the illegal-state error and changes nothing.
C15_AnswerRingingSucceeds ==
  \A k \in 1..Len(callObjs) :
    LET s2 == CallAnswer(Cur, k) IN
    IF callObjs[k].direction = "inbound" /\ callObjs[k].state = "ringing"
    THEN /\ AnswerOutcome(Cur, k) = "ok"
         /\ s2.callObjs[k].state = "active"
         /\ s2.callObjs[k].answerSent = callObjs[k].answerSent + 1
    ELSE /\ AnswerOutcome(Cur, k) = "IllegalState"
         /\ s2 = Cur

\* C15 (amended): answer() on an inbound ringing call hands one ANSWER frame
\* to the transport and makes the call active when the engine can send; when
\* it cannot, answer() fails with the send error and changes nothing; on any
\* other call it fails with the illegal-state error and changes nothing.
\* No call ever has more than one ANSWER frame.
C15_AnswerRingingSendsOrFails ==
  \A k \in 1..Len(callObjs) :
    LET s2 == CallAnswer(Cur, k) IN
    /\ callObjs[k].answerSent <= 1
    /\ IF callObjs[k].direction = "inbound" /\ callObjs[k].state = "ringing"
       THEN IF CanSend(Cur)
            THEN /\ AnswerOutcome(Cur, k) = "ok"
                 /\ s2.callObjs[k].state = "active"
                 /\ s2.callObjs[k].answerSent = 1
                 /\ \A j \in 1..Len(callObjs) :
                      j # k => s2.callObjs[j] = callObjs[j]
            ELSE /\ AnswerOutcome(Cur, k) = "SendFailed"
                 /\ s2 = Cur
       ELSE /\ AnswerOutcome(Cur, k) = "IllegalState"
            /\ s2 = Cur

\* an inbound call that answer() made active, and an outbound call
C15_Witness ==
  \E k, j \in 1..Len(callObjs) :
    /\ callObjs[k].direction = "inbound"
    /\ callObjs[k].answerSent = 1 /\ callObjs[k].state = "active"
    /\ callObjs[j].direction = "outbound"

\* C16: send() and tunnel() on a call that is not active fail with the
\* illegal-state error; no frame reaches the transport, the process is not
\* started, no continuation is queued and the call keeps its state.
C16_InactiveSendTunnelFail ==
  \A k \in 1..Len(callObjs) :
    callObjs[k].state # "active" =>
      LET s2 == CallTunnel(Cur, k) IN
      /\ SendOutcome(Cur, k) = "IllegalState"
      /\ CallSend(Cur, k) = Cur
      /\ TunnelOutcome(Cur, k) = "IllegalState"
      /\ s2 = [Cur EXCEPT !.callObjs[k].tunnelCalls = @ + 1]
      /\ s2.callObjs[k].processStarts = callObjs[k].processStarts
      /\ s2.callObjs[k].state = callObjs[k].state

\* tunnel() was refused on a call that never was active, and a call that
\* sent a message while active has ended
C16_Witness ==
  /\ \E k \in 1..Len(callObjs) :
       /\ callObjs[k].state = "ringing"
       /\ callObjs[k].tunnelCalls = 1 /\ callObjs[k].processStarts = 0
  /\ \E j \in 1..Len(callObjs) :
       callObjs[j].state = "ended" /\ callObjs[j].msgSent = 1

\* C20: an inbound HANGUP for a call in the table ends the call, emits its
\* hangup event once with the frame's reason, removes the call id from the
\* table, and ends and removes the call's tunnel stream if there is one;
\* a HANGUP for an id that is not in the table changes nothing.
C20_HangupFrameEndsCall ==
  \A cid \in CallIds, reason \in Reasons :
    Receiving =>
      LET s2 == HandleHangup(Cur, cid, reason)
          k == calls[cid]
          st == streams[cid]
      IN IF k = 0 THEN s2 = Cur
         ELSE /\ s2.callObjs[k].state = "ended"
              /\ s2.callObjs[k].hangupEvents = callObjs[k].hangupEvents + 1
              /\ s2.callObjs[k].hangupReason = reason
              /\ s2.calls[cid] = 0
              /\ s2.streams[cid] = 0
              /\ st # 0 => s2.streamObjs[st].remoteEnded
              /\ \A c \in CallIds : c # cid =>
                   /\ s2.calls[c] = calls[c]
                   /\ s2.streams[c] = streams[c]

\* over a connection that never closed, a HANGUP frame ended a call that
\* had a tunnel stream, while another call and its stream stay live
C20_Witness ==
  /\ nTransports = 1 /\ tstate[1] = "open"
  /\ \E k \in 1..Len(callObjs), i \in 1..Len(streamObjs) :
       /\ callObjs[k].state = "ended"
       /\ callObjs[k].hangupReason \in Reasons
       /\ calls[callObjs[k].id] = 0
       /\ streamObjs[i].id = callObjs[k].id
       /\ streamObjs[i].remoteEnded
       /\ streams[callObjs[k].id] = 0
  /\ \E c \in CallIds : calls[c] # 0 /\ streams[c] # 0

\* C12: an inbound MSG whose call_id is not in the call table changes
\* nothing: no Call receives a message, no stream receives bytes, and the
\* call table, the streams map and the pending-dial FIFO keep their entries.
C12_UnknownMsgIgnored ==
  \A cid \in CallIds, ct \in {"text", "binary"}, chunk \in Chunks :
    (Receiving /\ calls[cid] = 0) =>
      HandleCallMessage(Cur, cid, ct, EncodeBase64(chunk)) = Cur

\* frames can arrive for an id that left the table after its call received
\* a message and ended, while a stream for that id is in the streams map,
\* and for an id that was never seen
C12_Witness ==
  /\ Receiving
  /\ \E k \in 1..Len(callObjs) :
       /\ callObjs[k].state = "ended" /\ callObjs[k].messages > 0
       /\ calls[callObjs[k].id] = 0
       /\ streams[callObjs[k].id] # 0
  /\ \E c \in CallIds :
       calls[c] = 0 /\ \A j \in 1..Len(callObjs) : callObjs[j].id # c

\* C19: when the transport closes while the engine is connected or
\* connecting, then in the state in which `disconnected` is emitted every
\* call of the table has emitted hangup("disconnected"), every stream of the
\* map has its readable side ended, the state is disconnected, the call
\* table, the streams map and the pending-dial FIFO are empty, and the
\* reconnect timer is as it was; the reconnect policy that follows changes
\* nothing but the reconnect timer.
C19_CascadeBeforeDisconnected ==
  connectionState # "disconnected" =>
    LET e == DisconnectCascade(Cur)
        f == HandleTransportClose(Cur)
    IN /\ \A k \in 1..Len(callObjs) :
            IF InTable(Cur, k)
            THEN /\ e.callObjs[k].state = "ended"
                 /\ e.callObjs[k].hangupReason = "disconnected"
                 /\ e.callObjs[k].hangupEvents = callObjs[k].hangupEvents + 1
            ELSE e.callObjs[k] = callObjs[k]
       /\ \A c \in CallIds :
            streams[c] # 0 => e.streamObjs[streams[c]].remoteEnded
       /\ e.connectionState = "disconnected"
       /\ e.calls = [c \in CallIds |-> 0]
       /\ e.streams = [c \in CallIds |-> 0]
       /\ e.pendingDials = << >>
       /\ e.reconnectTimer = reconnectTimer
       /\ e.nTransports = nTransports
       /\ [f EXCEPT !.reconnectTimer = e.reconnectTimer] = e

\* a close ended a call with hangup("disconnected"), ended a stream and
\* rejected a pending dial, and the reconnect timer was armed after it
C19_Witness ==
  /\ connectionState = "disconnected"
  /\ reconnectTimer # 0
  /\ \E k \in 1..Len(callObjs) : callObjs[k].hangupReason = "disconnected"
  /\ \E i \in 1..Len(streamObjs) : streamObjs[i].remoteEnded
  /\ \E d \in DialIds : dials[d].status = "rejected"

\* C17: with heartbeatIntervalMs > 0 and heartbeatTimeoutMs > 0, an engine
\* connected over a transport that delivers no more HEARTBEAT_ACK eventually
\* has closed that transport with code 4000 and is disconnected with the
\* call table and the streams map emptied; with autoReconnect = false no
\* transport is constructed except in a step of the user's register().
C17_HeartbeatTimeoutCloses ==
  /\ \A t \in TransportIds :
       (/\ connectionState = "connected" /\ transport = t
        /\ heartbeatIntervalMs > 0 /\ heartbeatTimeoutMs > 0)
       ~> (/\ connectionState = "disconnected"
           /\ tstate[t] = "closed"
           /\ closeCode[t] = HeartbeatTimeoutCode
           /\ calls = [c \in CallIds |-> 0]
           /\ streams = [c \in CallIds |-> 0])
  /\ [][(~autoReconnect /\ regs' = regs) => nTransports' = nTransports]_vars

\* without autoReconnect, a heartbeat timeout closed the transport and ended
\* a call, and the engine is disconnected with no reconnect timer
C17_Witness ==
  /\ ~autoReconnect
  /\ connectionState = "disconnected"
  /\ reconnectTimer = 0
  /\ \E t \in 1..nTransports :
       tstate[t] = "closed" /\ closeCode[t] = HeartbeatTimeoutCode
  /\ \E k \in 1..Len(callObjs) : callObjs[k].hangupReason = "disconnected"

C11_AllBytesBeforeEnd ==
  \A i \in 1..Len(streamObjs) :
    streamObjs[i].remoteEnded =>
      streamObjs[i].readable = written[streamObjs[i].id]


\* C28: whenever connectionState is connected the engine holds a transport,
\* and it is one that has opened and has not closed.
C28_ConnectedHoldsTransport ==
  connectionState = "connected" =>
    /\ transport # 0
    /\ tstate[transport] \in {"open", "closing"}

\* C26: the close event of a transport that is not the engine's current
\* transport changes nothing in the engine: the connection state, the
\* current transport, the calls, the dials and the registrations stay as
\* they are.
C26_StaleCloseIgnored ==
  \A t \in 1..nTransports :
    (/\ microQ = << >>
     /\ transport # 0 /\ t # transport
     /\ tstate[t] \in {"connecting", "open", "closing", "errored"}) =>
      HandleTransportClose([Cur EXCEPT !.tstate[t] = "closed"])
        = [Cur EXCEPT !.tstate[t] = "closed"]


\* C27: at most one transport constructed by the engine is connecting or
\* open at any time.
C27_OneLiveTransport ==
  Cardinality({t \in 1..nTransports :
                 tstate[t] \in {"connecting", "open"}}) <= 1

InFlight == {t \in 1..nTransports : tstate[t] = "connecting"}

\* C29: at most one connection attempt is in flight at any time, and when
\* the reconnect timer fires it constructs no transport while an attempt is
\* in flight or while the engine is connected.
C29_SingleFlightReconnect ==
  [][/\ Cardinality(InFlight') <= 1
     /\ (ReconnectTimer /\ nTransports' > nTransports) =>
          (InFlight = {} /\ connectionState # "connected")]_vars

\* C30: a register() or dial() constructs a transport only when the engine
\* is not connected and no attempt is in flight, so the calls made before
\* the transport opens share one transport; a call made while connected
\* constructs none.
C30_CallsJoinOneAttempt ==
  [][((Register \/ Dial) /\ nTransports' > nTransports) =>
       (InFlight = {} /\ connectionState = "disconnected")]_vars

\* C25: every call id that has an entry in the streams map is in the call
\* table and its call has not ended.
C25_StreamsOfLiveCalls ==
  \A c \in CallIds :
    streams[c] # 0 =>
      /\ calls[c] # 0
      /\ callObjs[calls[c]].state # "ended"

\* C24: a write into a call's tunnel stream hands a MSG frame to the
\* transport only while the call is in the call table and active.
C24_StreamFramesOnlyWhileActive ==
  [][\A i \in 1..Len(streamObjs) :
       streamObjs'[i].framesSent > streamObjs[i].framesSent =>
         /\ calls[streamObjs[i].id] # 0
         /\ callObjs[calls[streamObjs[i].id]].state = "active"]_vars

\* C21: register() and dial() with an address that is not of the form
\* local@domain (one "@", something before it, and after it something that
\* contains a ".") fail with the invalid-address error and leave the engine
\* as it was: no transport, no frame, the pinned registration, the pending
\* dials, the connection state and the reconnect flags unchanged; an
\* address of that form passes the check.
C21_InvalidAddressFailsFirst ==
  LET WellFormed(cs) ==
        \E i \in DOMAIN cs :
          /\ cs[i] = "@"
          /\ \A j \in DOMAIN cs : cs[j] = "@" => j = i
          /\ i > 1 /\ i < Len(cs)
          /\ \E j \in (i + 1)..Len(cs) : cs[j] = "."
      EngineFields(s) ==
        << s.transport, s.connectionState, s.connectPromise, s.nTransports,
           s.tstate, s.firstFrame, s.registerFrames,
           s.registeredAddress, s.registerOptions, s.registerDeferred,
           s.pendingDials, s.calls, s.reconnectTimer,
           s.currentReconnectDelay, s.shouldAttemptReconnect,
           s.manualCloseRequested, s.microQ, s.waiters >>
  IN
  \A addr \in Addresses \cup OtherAddresses :
    /\ isValidAddress(addr) <=> WellFormed(Chars(addr))
    /\ ~WellFormed(Chars(addr)) =>
         /\ \A r \in RegIds :
              LET s2 == RegisterCall(Cur, r, addr, "o1") IN
              /\ s2.regs[r].status = "rejected"
              /\ s2.regs[r].error = "InvalidAddress"
              /\ EngineFields(s2) = EngineFields(Cur)
              /\ s2.dials = dials
         /\ \A d \in DialIds :
              LET s2 == DialCall(Cur, d, addr, 0) IN
              /\ s2.dials[d].status = "rejected"
              /\ s2.dials[d].error = "InvalidAddress"
              /\ EngineFields(s2) = EngineFields(Cur)
              /\ s2.regs = regs

\* a registration is pinned and in flight on an open connection, a dial is
\* pending, and a register() and a dial() were refused for their address
C21_Witness ==
  /\ connectionState = "connected"
  /\ registeredAddress # NoAddr
  /\ pendingDials # << >>
  /\ \E r \in RegIds : regs[r].error = "InvalidAddress"
  /\ \E d \in DialIds : dials[d].error = "InvalidAddress"

\* C22: however often close() is called on a tunnel handle and whether or
\* not the hangup of the call calls it too, process.stop is invoked and the
\* process stdin is ended at most once, a closed handle is not in the
\* active-tunnel set, and once close() was called process.stop is invoked,
\* with the reason of the first close, and the stdin is ended.
C22_CloseIdempotent ==
  /\ [](\A i \in 1..Len(handles) :
          /\ handles[i].stopCalls <= 1
          /\ handles[i].stdinEnds <= 1
          /\ handles[i].closed => ~handles[i].active
          /\ handles[i].stopCalls = 1 =>
               handles[i].stopReason = handles[i].firstReason)
  /\ \A i \in 1..(MaxCallObjs * MaxTunnels) :
       (Len(handles) >= i /\ handles[i].closed)
         ~> (/\ Len(handles) >= i
             /\ handles[i].stopCalls = 1 /\ handles[i].stdinEnds = 1)

\* C23: when the hangup event of a call is emitted, a handle made with
\* closeOnHangup that was not closed before gets its close() called, once,
\* and process.stop is then invoked with call_hangup; a handle closed
\* before, and a handle made with closeOnHangup false, are left as they
\* are.
C23_HangupClosesHandle ==
  /\ [][\A i \in 1..Len(handles) :
          (/\ callObjs[handles[i].call].state # "ended"
           /\ callObjs'[handles[i].call].state = "ended") =>
             IF handles[i].closeOnHangup /\ ~handles[i].closed
             THEN /\ handles'[i].closed
                  /\ handles'[i].closeCalls = handles[i].closeCalls + 1
                  /\ handles'[i].firstReason = "call_hangup"
             ELSE handles'[i] = handles[i]]_vars
  /\ \A i \in 1..(MaxCallObjs * MaxTunnels) :
       (/\ Len(handles) >= i
        /\ handles[i].closed /\ handles[i].firstReason = "call_hangup")
         ~> (/\ Len(handles) >= i
             /\ handles[i].stopCalls = 1
             /\ handles[i].stopReason = "call_hangup")

\* C31: every entry of the pending-dial FIFO belongs to a dial() whose DIAL
\* frame was handed to the transport and whose promise is not settled; a
\* dial() whose send raised has no entry.
C31_PendingDialsWereSent ==
  \A i \in 1..Len(pendingDials) : dials[pendingDials[i]].status = "pending"

\* C32: a tunnel handle made with closeOnHangup whose call has ended has
\* had its close() run, also when the call ended while tunnel() was
\* awaiting process.start().
C32_NoOpenHandleOnEndedCall ==
  \A i \in 1..Len(handles) :
    (handles[i].closeOnHangup /\ callObjs[handles[i].call].state = "ended")
      => handles[i].closed

\* C33: no two Call objects that have not ended carry the same id, and
\* every Call object the engine made is in the call table or has ended.
C33_CallIdsUnique ==
  /\ \A k1, k2 \in 1..Len(callObjs) :
       (/\ k1 # k2
        /\ callObjs[k1].state # "ended"
        /\ callObjs[k2].state # "ended") => callObjs[k1].id # callObjs[k2].id
  /\ \A k \in 1..Len(callObjs) :
       InTable(Cur, k) \/ callObjs[k].state = "ended"

\* C34: an inbound call that is active has had an ANSWER frame with its id
\* handed to the transport by its answer().
C34_ActiveInboundWasAnswered ==
  \A k \in 1..Len(callObjs) :
    (callObjs[k].direction = "inbound" /\ callObjs[k].state = "active")
      => callObjs[k].answerSent >= 1

\* C35: a Call emits its hangup event at most once, and a HANGUP frame for
\* a call in the table, a call the user has hung up included, leaves it
\* with exactly one hangup event, which carries the frame's reason.
C35_OneHangupEvent ==
  /\ \A k \in 1..Len(callObjs) : callObjs[k].hangupEvents <= 1
  /\ \A cid \in CallIds, reason \in Reasons :
       calls[cid] # 0 =>
         LET call == HandleHangup(Cur, cid, reason).callObjs[calls[cid]] IN
         /\ call.hangupEvents = 1
         /\ call.hangupReason = reason

\* the user hung up a call, the HANGUP frame of the Exchange followed, and
\* one hangup event with the frame's reason was emitted
C35_Witness ==
  \E k \in 1..Len(callObjs) :
    /\ callObjs[k].hangupSent >= 1
    /\ callObjs[k].hangupEvents = 1
    /\ callObjs[k].hangupReason = "bye"

\* C36: a register() whose completion is pending when a transport closes
\* is rejected with the disconnected error in that step, and a settled
\* register() is never settled again: the REGISTERED frame of a later
\* connection does not resolve it.
C36_PendingRegisterRejectedOnce ==
  [][\A r \in RegIds :
       /\ (/\ regs[r].status = "inflight"
           /\ \E t \in 1..nTransports :
                tstate[t] # "closed" /\ tstate'[t] = "closed")
            => (/\ regs'[r].status = "rejected"
                /\ regs'[r].error = "Disconnected")
       /\ regs[r].status \in {"rejected", "resolved"}
            => regs'[r] = regs[r]]_vars

\* C37: after close() the pinned registration is not used again: when
\* close() ends a connection and reconnect() then opens a new one, with no
\* register() in between, the engine hands no REGISTER frame to the new
\* transport when it opens.
C37_NoReregisterAfterClose ==
  (/\ connectionState = "connected"
   /\ transport # 0 /\ tstate[transport] = "open"
   /\ microQ = << >>
   /\ nTransports < factoryLimit)
    => LET s1 == CloseCall(Cur, TRUE)
           s2 == ReconnectCall(s1)
           t == s2.transport
           s3 == HandleOpen([s2 EXCEPT !.tstate[t] = "open"], t)
       IN /\ s3.connectionState = "connected"
          /\ s3.firstFrame[t] = NoFrame
          /\ s3.registerFrames = s2.registerFrames

\* C38: with heartbeatTimeoutMs > 0, every HEARTBEAT the engine sends, on
\* open, from the interval timer or from heartbeat(), leaves the timeout
\* timer armed; a HEARTBEAT_ACK cancels it; and an armed timeout on an open
\* connection is followed by a HEARTBEAT_ACK, by the close of the transport
\* with code 4000, or by the end of the connection.
C38_EverySendArmsTimeout ==
  /\ [](heartbeatTimeoutMs > 0 =>
          /\ CanSend(Cur)
               => /\ HeartbeatCall(Cur).heartbeatTimeoutTimer
                  /\ HeartbeatIntervalFired(Cur).heartbeatTimeoutTimer
          /\ \A t \in 1..nTransports :
               (/\ tstate[t] = "connecting" /\ connectListeners[t]
                /\ transport = t /\ heartbeatIntervalMs > 0)
                 => HandleOpen([Cur EXCEPT !.tstate[t] = "open"], t)
                      .heartbeatTimeoutTimer)
  /\ [](~HandleHeartbeatAck(Cur).heartbeatTimeoutTimer)
  /\ \A t \in TransportIds, n \in 0..MaxAcks :
       (/\ heartbeatTimeoutTimer /\ heartbeatAcks = n
        /\ connectionState = "connected" /\ transport = t)
       ~> (\/ heartbeatAcks > n
           \/ closeCode[t] = HeartbeatTimeoutCode
           \/ connectionState # "connected"
           \/ tstate[t] # "open")

\* C39: while the engine is disconnected or connecting, neither the
\* heartbeat interval timer nor the heartbeat timeout timer is armed, and no
\* armed timer outlives a change of the transport the engine holds.
C39_TimersOnlyWhileConnected ==
  /\ [](connectionState # "connected"
          => ~heartbeatTimer /\ ~heartbeatTimeoutTimer)
  /\ [][transport' # transport
          => ~heartbeatTimer' /\ ~heartbeatTimeoutTimer']_vars

\* the engine is connecting on a second transport after a connection on
\* which both heartbeat timers had been armed was closed with code 4000
C39_Witness ==
  /\ connectionState = "connecting"
  /\ heartbeatIntervalMs > 0 /\ heartbeatTimeoutMs > 0
  /\ nTransports = 2
  /\ tstate[1] = "closed" /\ closeCode[1] = HeartbeatTimeoutCode
  /\ ~heartbeatTimer /\ ~heartbeatTimeoutTimer

\* C40: a frame whose text does not parse changes nothing but the count of
\* `error` events, which grows by one; a frame that parses and whose type
\* the engine does not know changes nothing at all, observers included;
\* and a frame delivered after either is handled as it would have been
\* without it.
C40_BadFramesLeaveStateAlone ==
  LET KnownTypes == {"REGISTERED", "REGISTER_FAILED", "RING", "CONNECTED",
                     "BUSY", "MSG", "HANGUP", "HEARTBEAT_ACK"}
      Unknown(val) ==
        \/ Field(val, "type").kind # "string"
        \/ Field(val, "type").v \notin KnownTypes
  IN
  /\ \A text \in InvalidTexts : ~JsonParse(text).ok
  /\ \A text \in UnknownTypeTexts :
       JsonParse(text).ok /\ Unknown(JsonParse(text).val)
  /\ \A raw \in RawFrames :
       (raw.kind # "other" /\ raw.text # << >>)
         => LET parsed == JsonParse(raw.text)
                after == HandleRawMessage(Cur, raw)
            IN /\ ~parsed.ok
                    => after = [Cur EXCEPT !.parseErrors = @ + 1]
               /\ (parsed.ok /\ Unknown(parsed.val)) => after = Cur
               /\ (~parsed.ok \/ Unknown(parsed.val))
                    => \A later \in [kind : {"string"}, text : KnownTexts] :
                         HandleRawMessage(after, later)
                           = [HandleRawMessage(Cur, later) EXCEPT
                                !.parseErrors =
                                  @ + after.parseErrors - parseErrors]

\* frames failed to parse on a connection on which, as well, a registration
\* completed and an inbound call rang and was then hung up by a frame
C40_Witness ==
  /\ parseErrors = MaxParseErrors
  /\ \E r \in RegIds : regs[r].status = "resolved"
  /\ \E k \in 1..Len(callObjs) :
       callObjs[k].hangupEvents = 1 /\ callObjs[k].hangupReason = "bye"

====
